---- MODULE Spec2Model ----
(***************************************************************************)
(* Model of the cryostat monitor's instrument layer (src/devices):         *)
(* MessageBasedDevice sessions and their re-entrant lock, the Lakeshore    *)
(* TemperatureController getters/setters, the sample-space warm-up loop    *)
(* and the cold-head pressure-stabilization loop.                          *)
(*                                                                         *)
(* Every method whose body runs inside `with self._lock:` is one action:   *)
(* no other thread can touch the channel while it runs.  A thread that     *)
(* issues several such calls in a row (a control-loop tick, a collector    *)
(* acquisition) is a sequence of actions, one per call.                    *)
(***************************************************************************)
EXTENDS Integers, Sequences, FiniteSets, TLC

(***************************************************************************)
(* Bounds of the model.                                                    *)
(***************************************************************************)
\* how often a thread may nest `with device._lock`
MaxLockDepth == 2
\* a warm-up tick starts only while the windows of all warm-up threads
\* together hold at most this many readings
MaxReadings == 2
\* a stabilization tick starts only while the pressure windows of all
\* stabilization threads together hold at most this many readings
MaxPressureReadings == 2

(***************************************************************************)
(* Threads, devices, channels.                                             *)
(***************************************************************************)
NoThread == "nobody"
Clients == {"gui", "col"}
WThreads == {"w1", "w2"}
SThreads == {"s1", "s2"}
Threads == Clients \cup WThreads \cup SThreads

\* "tc": the TemperatureController, "cls": the CryogenLevelSensor
Devices == {"tc", "cls", "ard"}

COLD_HEAD_OUT_CHANNEL == 1
SAMPLE_SPACE_OUT_CHANNEL == 2
OutChannels == {COLD_HEAD_OUT_CHANNEL, SAMPLE_SPACE_OUT_CHANNEL}

(***************************************************************************)
(* Python values: a float, NaN, a string, None, or a raised exception.     *)
(* A response text that float() parses is NumStr(n).                       *)
(***************************************************************************)
Num(n) == [kind |-> "num", n |-> n, s |-> ""]
NaN == [kind |-> "nan", n |-> 0, s |-> ""]
Str(x) == [kind |-> "str", n |-> 0, s |-> x]
NumStr(n) == [kind |-> "numstr", n |-> n, s |-> ""]
None == [kind |-> "none", n |-> 0, s |-> ""]
Raised(e) == [kind |-> "raise", n |-> 0, s |-> e]
EmptyStr == Str("")

_str_is_float(string) == string.kind = "numstr"

VARIABLES
    session,      \* [Devices -> BOOLEAN]: mediator._session is not None
    lockOwner,    \* [Devices -> Threads \cup {NoThread}]: holder of _lock
    lockCount,    \* [Devices -> Nat]: nesting depth of the RLock
    mout,         \* [OutChannels -> Int]: manual output held by the instrument
    range,        \* [OutChannels -> 0..3]: heater range held by the instrument
    io,           \* channel operations performed by the latest action
    call,         \* the latest method call and its outcome
    cpc,          \* [Clients -> position of a caller inside a multi-call method]
    cval,         \* [Clients -> local value of that method]
    stop_warmup_event,  \* TemperatureController.stop_warmup_event: "None" or an Event
    evSet,        \* [Events -> BOOLEAN]: Event.is_set(); a loop thread names its Event
    wpc,          \* [WThreads -> position of a warm-up thread in warmup_loop]
    window,       \* [WThreads -> sample_space_data of that thread]
    hr,           \* [WThreads -> heater_range read by the running tick]
    wq,           \* [WThreads -> what the running tick has still to do]
    stopRun,      \* stop_sample_space_warmup calls returned in a row
    stop_stabilization_event,  \* ColdHeadHeaterOnPressureStabilization's: "None" or an Event
    sevSet,       \* [SThreads -> BOOLEAN]: is_set() of the Event a loop thread was given
    stabilization_is_on,       \* the Event of that name: is_set()
    spc,          \* [SThreads -> position of a stabilization thread in stabilization_loop]
    sloc,         \* [SThreads -> locals of stabilization_loop]
    pushed,       \* samples handed to the rolling windows so far, oldest first
    channels,     \* the channels the resource manager lists: rm.list_resources()
    resource,     \* the channel handed to force_clear_message_based_resource
    _status_changes  \* monitor.checks._status_changes, with what the run has shown so far

sessVars == <<session, lockOwner, lockCount>>
heaterVars == <<mout, range>>
clientVars == <<cpc, cval>>
warmVars == <<stop_warmup_event, evSet, wpc, window, hr, wq, stopRun>>
stabVars == <<stop_stabilization_event, sevSet, stabilization_is_on, spc, sloc>>
\* what the loops and the sessions never touch
pureVars == <<pushed, channels, resource, _status_changes>>
vars == <<session, lockOwner, lockCount, mout, range, io, call, cpc, cval,
          stop_warmup_event, evSet, wpc, window, hr, wq, stopRun,
          stop_stabilization_event, sevSet, stabilization_is_on, spc, sloc,
          pushed, channels, resource, _status_changes>>

(***************************************************************************)
(* Observation records.                                                    *)
(***************************************************************************)
\* one operation on the underlying channel (mediator.<op>), with the thread
\* that held _lock and the session state at the moment of the operation
ChanOp(name, t, d, holder, sess) ==
    [op |-> name, thread |-> t, dev |-> d, held |-> (holder = t), open |-> sess]

\* a finished method call: who called what, the session state when the call
\* began, the value written (setters) with the heater range then active on the
\* written channel, and what the call returned or raised
Call(t, d, name, ch, sess, value, rng, result) ==
    [thread |-> t, dev |-> d, op |-> name, ch |-> ch, sessBefore |-> sess,
     value |-> value, rng |-> rng, result |-> result]

NoCall == Call(NoThread, "tc", "none", 0, FALSE, None, 0, None)

\* operations that read, write, query, clear or drain the channel
IOOps == {"clear", "write", "read", "query", "flush", "drain"}

(***************************************************************************)
(* The re-entrant lock (threading.RLock) of a device.                      *)
(***************************************************************************)
\* the mutant of LockAvailable: the lock never makes a thread wait
LockAvailable_always(t, d) == TRUE

\* `with self._lock:` can be entered when the lock is free or already ours
LockAvailable(t, d) == lockOwner[d] \in {NoThread, t}

\* the thread that holds _lock inside a `with self._lock:` block entered by t
EnterLock_skipped(t, d) == lockOwner[d]
EnterLock(t, d) == t

(***************************************************************************)
(* MessageBasedDevice: session life cycle.                                 *)
(***************************************************************************)
is_connected_always(sess) == TRUE
is_connected_never(sess) == FALSE
is_connected(sess) == sess

\* MessageBasedDevice.clear: the channel operations it performs, in order
clearOps(sess, force) ==
    IF ~is_connected(sess) THEN <<>>
    ELSE <<"clear">> \o
         (IF force
             THEN (IF is_connected(sess) THEN <<"write">> ELSE <<>>)
                  \o <<"flush", "flush", "drain">>
             ELSE <<>>)

\* MessageBasedDevice.connect: <<channel operations, session afterwards>>;
\* each operation is paired with the session state it found
connectOps(sess) ==
    IF is_connected(sess) THEN <<>>
    ELSE <<<<"open", sess>>>> \o
         [i \in 1..Len(clearOps(TRUE, FALSE)) |-> <<clearOps(TRUE, FALSE)[i], TRUE>>]

connectSession(sess) == IF is_connected(sess) THEN sess ELSE TRUE

\* MessageBasedDevice.disconnect
disconnectOps(sess) ==
    IF ~is_connected(sess) THEN <<>>
    ELSE [i \in 1..Len(clearOps(sess, FALSE)) |-> <<clearOps(sess, FALSE)[i], sess>>]
         \o <<<<"before_close", sess>>, <<"close", sess>>>>

disconnectSession(sess) == IF ~is_connected(sess) THEN sess ELSE FALSE

\* the records of a list of <<operation, session state>> pairs
Ops(t, d, holder, pairs) ==
    [i \in 1..Len(pairs) |-> ChanOp(pairs[i][1], t, d, holder, pairs[i][2])]

connect(t, d) ==
    /\ LockAvailable(t, d)
    /\ session' = [session EXCEPT ![d] = connectSession(session[d])]
    /\ io' = Ops(t, d, EnterLock(t, d), connectOps(session[d]))
    /\ call' = Call(t, d, "connect", 0, session[d], None, 0, None)
    /\ UNCHANGED <<lockOwner, lockCount, mout, range>>

disconnect(t, d) ==
    /\ LockAvailable(t, d)
    /\ session' = [session EXCEPT ![d] = disconnectSession(session[d])]
    /\ io' = Ops(t, d, EnterLock(t, d), disconnectOps(session[d]))
    /\ call' = Call(t, d, "disconnect", 0, session[d], None, 0, None)
    /\ UNCHANGED <<lockOwner, lockCount, mout, range>>

\* the mutant of connect_open_raises: the open is tried a second time
connect_open_raises_retrying(t, d) ==
    /\ LockAvailable(t, d)
    /\ ~is_connected(session[d])
    /\ io' = Ops(t, d, EnterLock(t, d), <<<<"open", session[d]>>, <<"open", session[d]>>>>)
    /\ call' = Call(t, d, "connect", 0, session[d], None, 0, Raised("VisaIOError"))
    /\ UNCHANGED <<session, lockOwner, lockCount, mout, range>>

\* connect() when self.mediator.open() raises: the exception leaves the
\* `with self._lock:` block and the method; nothing after the open runs
connect_open_raises(t, d) ==
    /\ LockAvailable(t, d)
    /\ ~is_connected(session[d])
    /\ io' = Ops(t, d, EnterLock(t, d), <<<<"open", session[d]>>>>)
    /\ call' = Call(t, d, "connect", 0, session[d], None, 0, Raised("VisaIOError"))
    /\ UNCHANGED <<session, lockOwner, lockCount, mout, range>>

\* connect() when the mediator.clear() of its clear(with_lock=False) raises
\* VisaIOError: `except VisaIOError: pass`.  The call record carries the
\* swallowed error as its value.
connect_clear_raises(t, d) ==
    /\ LockAvailable(t, d)
    /\ ~is_connected(session[d])
    /\ session' = [session EXCEPT ![d] = connectSession(session[d])]
    /\ io' = Ops(t, d, EnterLock(t, d), connectOps(session[d]))
    /\ call' = Call(t, d, "connect", 0, session[d], Raised("VisaIOError"), 0, None)
    /\ UNCHANGED <<lockOwner, lockCount, mout, range>>

\* the mutant of disconnect_clear_raises: the error of the clear leaves
\* disconnect() before the channel is closed
disconnect_clear_raises_uncaught(t, d) ==
    /\ LockAvailable(t, d)
    /\ is_connected(session[d])
    /\ io' = Ops(t, d, EnterLock(t, d), <<<<"clear", session[d]>>>>)
    /\ call' = Call(t, d, "disconnect", 0, session[d], Raised("VisaIOError"), 0,
                    Raised("VisaIOError"))
    /\ UNCHANGED <<session, lockOwner, lockCount, mout, range>>

\* disconnect() when the mediator.clear() of its clear(with_lock=False)
\* raises VisaIOError: swallowed, before_close() and close() follow
disconnect_clear_raises(t, d) ==
    /\ LockAvailable(t, d)
    /\ is_connected(session[d])
    /\ session' = [session EXCEPT ![d] = disconnectSession(session[d])]
    /\ io' = Ops(t, d, EnterLock(t, d), disconnectOps(session[d]))
    /\ call' = Call(t, d, "disconnect", 0, session[d], Raised("VisaIOError"), 0, None)
    /\ UNCHANGED <<lockOwner, lockCount, mout, range>>

clear(t, d, force) ==
    /\ LockAvailable(t, d)
    /\ io' = Ops(t, d, EnterLock(t, d),
                 [i \in 1..Len(clearOps(session[d], force)) |->
                     <<clearOps(session[d], force)[i], session[d]>>])
    /\ call' = Call(t, d, "clear", 0, session[d], None, 0, None)
    /\ UNCHANGED <<session, lockOwner, lockCount, mout, range>>

\* `with device._lock:` written by a caller around several calls
lock_acquire(t, d) ==
    /\ LockAvailable(t, d)
    /\ lockCount[d] < MaxLockDepth
    /\ lockOwner' = [lockOwner EXCEPT ![d] = t]
    /\ lockCount' = [lockCount EXCEPT ![d] = @ + 1]
    /\ io' = <<>>
    /\ call' = Call(t, d, "lock_acquire", 0, session[d], None, 0, None)
    /\ UNCHANGED <<session, mout, range>>

lock_release(t, d) ==
    /\ lockOwner[d] = t
    /\ lockCount' = [lockCount EXCEPT ![d] = @ - 1]
    /\ lockOwner' = [lockOwner EXCEPT ![d] = IF lockCount[d] = 1 THEN NoThread ELSE t]
    /\ io' = <<>>
    /\ call' = Call(t, d, "lock_release", 0, session[d], None, 0, None)
    /\ UNCHANGED <<session, mout, range>>

(***************************************************************************)
(* MessageBasedDevice: framed I/O.  `reply` is what the instrument would   *)
(* answer, `pending` the number of further chunks waiting in its buffer.   *)
(***************************************************************************)
safe_query_ops(sess, pending, until_buffer_empty) ==
    IF ~is_connected(sess) THEN <<>>
    ELSE <<"query">> \o (IF until_buffer_empty THEN [i \in 1..pending |-> "read"] ELSE <<>>)

safe_query_result(sess, reply) == IF ~is_connected(sess) THEN EmptyStr ELSE reply

safe_write_ops(sess) == IF ~is_connected(sess) THEN <<>> ELSE <<"write">>

safe_read_ops(sess, pending, check_buffer_before, until_buffer_empty) ==
    IF ~is_connected(sess) THEN <<>>
    ELSE IF check_buffer_before /\ pending = 0 THEN <<>>
    ELSE <<"read">> \o
         (IF until_buffer_empty /\ pending > 0 THEN [i \in 1..(pending - 1) |-> "read"] ELSE <<>>)

safe_read_result(sess, pending, check_buffer_before, reply) ==
    IF ~is_connected(sess) THEN EmptyStr
    ELSE IF check_buffer_before /\ pending = 0 THEN EmptyStr
    ELSE reply

\* a list of operations all performed on the same session state
Same(ops, sess) == [i \in 1..Len(ops) |-> <<ops[i], sess>>]

(***************************************************************************)
(* The Lakeshore 335 as the program sees it.                               *)
(***************************************************************************)
\* HeaterRangeValues
OFF == 0
LOW == 1
MEDIUM == 2
HIGH == 3
HeaterRangeValues == {OFF, LOW, MEDIUM, HIGH}
\* HeaterRangeValues(x).name.title()
HeaterRangeTitle == [r \in HeaterRangeValues |->
    CASE r = OFF -> "Off" [] r = LOW -> "Low" [] r = MEDIUM -> "Medium" [] OTHER -> "High"]
\* str.upper() of the names the program passes around
Upper(name) ==
    CASE name \in {"Off", "off", "OFF"} -> "OFF"
      [] name \in {"Low", "low", "LOW"} -> "LOW"
      [] name \in {"Medium", "medium", "MEDIUM"} -> "MEDIUM"
      [] name \in {"High", "high", "HIGH"} -> "HIGH"
      [] OTHER -> name
\* HeaterRangeValues[NAME].value
HeaterRangeByName == [n \in {"OFF", "LOW", "MEDIUM", "HIGH"} |->
    CASE n = "OFF" -> OFF [] n = "LOW" -> LOW [] n = "MEDIUM" -> MEDIUM [] OTHER -> HIGH]

\* HeaterMaxPercent
HeaterMaxPercent == [r \in HeaterRangeValues |->
    CASE r = OFF -> 100 [] r = LOW -> 80 [] r = MEDIUM -> 80 [] OTHER -> 50]

\* manual outputs and heater percentages the instrument may hold before the
\* program touches it, and values an operator may type in
ManualOutputs == {0, 10, 50, 80, 100}
\* sample temperatures the instrument may report, in tenths of a kelvin
Temps == {2400, 2540, 2580}
SetPoints == {40}

Commands == {"KRDG", "HTR", "MOUT", "RANGE", "SETP"}

\* the instrument's possible answers to `<command>? <channel>`
Replies(command, ch) ==
    CASE command = "KRDG" -> {NumStr(x) : x \in Temps}
      [] command = "HTR" -> {NumStr(x) : x \in ManualOutputs}
      [] command = "MOUT" -> {NumStr(mout[ch])}
      [] command = "RANGE" -> {NumStr(range[ch])}
      [] OTHER -> {NumStr(x) : x \in SetPoints}

\* the instrument executes `<command> <channel>,<value>`: it takes a manual
\* output in 0..100 and a range in 0..3 and ignores anything else
InstrumentMout(command, ch, value) ==
    IF command = "MOUT" /\ value.kind = "num" /\ value.n \in 0..100
       THEN [mout EXCEPT ![ch] = value.n] ELSE mout
InstrumentRange(command, ch, value) ==
    IF command = "RANGE" /\ value.kind = "num" /\ value.n \in HeaterRangeValues
       THEN [range EXCEPT ![ch] = value.n] ELSE range

(***************************************************************************)
(* TemperatureController: getters and setters.                             *)
(***************************************************************************)
\* quick_query: float(response) when the response parses, NaN otherwise
quick_query(response) == IF _str_is_float(response) THEN Num(response.n) ELSE NaN

\* HeaterRangeValues(response).name.title(): enum lookup by value
heater_range_name(response) ==
    IF response.kind = "num" /\ response.n \in HeaterRangeValues
       THEN Str(HeaterRangeTitle[response.n]) ELSE Raised("ValueError")

Getters == {"temperature", "heater_percentage", "manual_output", "heater_range", "set_point"}
GetterCommand == [g \in Getters |->
    CASE g = "temperature" -> "KRDG" [] g = "heater_percentage" -> "HTR"
      [] g = "manual_output" -> "MOUT" [] g = "heater_range" -> "RANGE" [] OTHER -> "SETP"]

\* get_<channel>_<g>(): what it returns given the response of safe_query
getter_result(g, response) ==
    IF g = "heater_range" THEN heater_range_name(quick_query(response))
    ELSE quick_query(response)

\* get_sample_space_* / get_cold_head_*: one safe_query under the lock
tc_get(t, g, ch, reply) ==
    /\ LockAvailable(t, "tc")
    /\ io' = Ops(t, "tc", EnterLock(t, "tc"),
                 Same(safe_query_ops(session["tc"], 0, FALSE), session["tc"]))
    /\ call' = Call(t, "tc", g, ch, session["tc"], None, range[ch],
                    getter_result(g, safe_query_result(session["tc"], reply)))
    /\ UNCHANGED <<session, lockOwner, lockCount, mout, range>>

\* set_heater_range: a name is looked up in HeaterRangeValues, a number is used as is
set_heater_range_value(value) ==
    IF value.kind = "str"
       THEN (IF Upper(value.s) \in DOMAIN HeaterRangeByName
                THEN Num(HeaterRangeByName[Upper(value.s)]) ELSE Raised("KeyError"))
       ELSE value

\* quick_write: one safe_write of `<command> <channel>,<value>` under the lock
tc_write(t, command, ch, value) ==
    /\ LockAvailable(t, "tc")
    /\ io' = Ops(t, "tc", EnterLock(t, "tc"), Same(safe_write_ops(session["tc"]), session["tc"]))
    /\ mout' = IF is_connected(session["tc"]) THEN InstrumentMout(command, ch, value) ELSE mout
    /\ range' = IF is_connected(session["tc"]) THEN InstrumentRange(command, ch, value) ELSE range
    /\ call' = Call(t, "tc", command, ch, session["tc"], value, range[ch], None)
    /\ UNCHANGED <<session, lockOwner, lockCount>>

\* set_sample_space_manual_output / set_cold_head_manual_output
set_manual_output(t, ch, value) == tc_write(t, "MOUT", ch, value)

\* set_sample_space_heater_range / set_cold_head_heater_range
set_heater_range(t, ch, value) ==
    /\ set_heater_range_value(value).kind = "num"
    /\ tc_write(t, "RANGE", ch, set_heater_range_value(value))

(***************************************************************************)
(* Plain framed I/O calls on a device (message contents left open).        *)
(***************************************************************************)
Pendings == {0, 1}
GenericReplies == {NumStr(7), Str("garbage")}

safe_query(t, d, reply, pending, until_buffer_empty) ==
    /\ LockAvailable(t, d)
    /\ io' = Ops(t, d, EnterLock(t, d),
                 Same(safe_query_ops(session[d], pending, until_buffer_empty), session[d]))
    /\ call' = Call(t, d, "safe_query", 0, session[d], None, 0,
                    safe_query_result(session[d], reply))
    /\ UNCHANGED <<session, lockOwner, lockCount, mout, range>>

safe_write(t, d) ==
    /\ LockAvailable(t, d)
    /\ io' = Ops(t, d, EnterLock(t, d), Same(safe_write_ops(session[d]), session[d]))
    /\ call' = Call(t, d, "safe_write", 0, session[d], None, 0, None)
    /\ UNCHANGED <<session, lockOwner, lockCount, mout, range>>

safe_read(t, d, reply, pending, check_buffer_before, until_buffer_empty) ==
    /\ LockAvailable(t, d)
    /\ io' = Ops(t, d, EnterLock(t, d),
                 Same(safe_read_ops(session[d], pending, check_buffer_before,
                                    until_buffer_empty), session[d]))
    /\ call' = Call(t, d, "safe_read", 0, session[d], None, 0,
                    safe_read_result(session[d], pending, check_buffer_before, reply))
    /\ UNCHANGED <<session, lockOwner, lockCount, mout, range>>

(***************************************************************************)
(* CryogenLevelSensor (LM-510).  A response is the list of its parts       *)
(* between '\r\n' separators: the echoed command, the level line, ...      *)
(***************************************************************************)
\* a level line such as "12.3 in": the number of tenths, then a 3-character unit
LevelStr(n) == [kind |-> "levelstr", n |-> n, s |-> ""]
Levels == {123}

\* what the LM-510 may answer to `MEAS? <channel>`: the echoed command, then
\* a level line or something unreadable, each closed by '\r\n'
EchoLevel(n) == [kind |-> "echo+level", n |-> n, s |-> ""]
EchoGarbage == [kind |-> "echo+garbage", n |-> 0, s |-> ""]
LevelReplies == {EchoLevel(x) : x \in Levels} \cup {EchoGarbage}

\* response.split('\r\n'): a string without the separator is its only part
split_crlf(response) ==
    CASE response.kind = "echo+level" -> <<Str("MEAS?"), LevelStr(response.n), EmptyStr>>
      [] response.kind = "echo+garbage" -> <<Str("MEAS?"), Str("garbage"), EmptyStr>>
      [] OTHER -> <<response>>

\* CryogenLevelSensor.parse_response: part [1] of the split response, parsed;
\* a level line is no number, so _convert_str leaves it a string
cls_parse_response(response) ==
    IF Len(split_crlf(response)) < 2 THEN Raised("IndexError")
    ELSE split_crlf(response)[2]

\* get_processed_response: float(parsed[:-3]) when that parses, NaN otherwise
get_processed_response(response) ==
    LET parsed == cls_parse_response(response) IN
    IF parsed.kind = "raise" THEN parsed
    ELSE IF parsed.kind = "levelstr" THEN Num(parsed.n)
    ELSE NaN

\* read_helium_level / read_nitrogen_level, first call: clear(force=True)
read_level_begin(t) ==
    /\ cpc[t] = "idle"
    /\ clear(t, "cls", TRUE)
    /\ cpc' = [cpc EXCEPT ![t] = "lvl_query"]
    /\ UNCHANGED <<cval, warmVars, stabVars, pureVars>>

\* quick_level_query: a query; on NaN the query is repeated once after a forced clear
level_query(t, reply) ==
    /\ cpc[t] \in {"lvl_query", "lvl_requery"}
    /\ LockAvailable(t, "cls")
    /\ reply \in LevelReplies
    /\ LET got == get_processed_response(safe_query_result(session["cls"], reply)) IN
       /\ io' = Ops(t, "cls", EnterLock(t, "cls"),
                    Same(safe_query_ops(session["cls"], 0, TRUE), session["cls"]))
       /\ cval' = [cval EXCEPT ![t] = got]
       /\ IF got.kind = "raise"
             THEN /\ cpc' = [cpc EXCEPT ![t] = "idle"]
                  /\ call' = Call(t, "cls", "read_level", 0, session["cls"], None, 0, got)
             ELSE /\ cpc' = [cpc EXCEPT ![t] =
                        IF got = NaN /\ cpc[t] = "lvl_query" THEN "lvl_retry" ELSE "lvl_end"]
                  /\ call' = Call(t, "cls", "quick_query", 0, session["cls"], None, 0, got)
    /\ UNCHANGED <<session, lockOwner, lockCount, mout, range, warmVars, stabVars, pureVars>>

\* quick_level_query: clear(force=True) before the second query
level_retry_clear(t) ==
    /\ cpc[t] = "lvl_retry"
    /\ clear(t, "cls", TRUE)
    /\ cpc' = [cpc EXCEPT ![t] = "lvl_requery"]
    /\ UNCHANGED <<cval, warmVars, stabVars, pureVars>>

\* read_*_level, last call: clear(force=True), then the level is returned
read_level_end(t) ==
    /\ cpc[t] = "lvl_end"
    /\ LockAvailable(t, "cls")
    /\ io' = Ops(t, "cls", EnterLock(t, "cls"),
                 Same(clearOps(session["cls"], TRUE), session["cls"]))
    /\ call' = Call(t, "cls", "read_level", 0, session["cls"], None, 0, cval[t])
    /\ cpc' = [cpc EXCEPT ![t] = "idle"]
    /\ UNCHANGED <<session, lockOwner, lockCount, mout, range, cval, warmVars, stabVars, pureVars>>

(***************************************************************************)
(* After construction: __init__ connects and disconnects, so the session   *)
(* is closed and the lock free.  The instrument keeps whatever heater      *)
(* state it had.                                                           *)
(***************************************************************************)
\* no discovery is under way: nothing is known about the channels
NoDiscovery == channels = <<>>

\* force_clear_message_based_resource is not running: the channel it would
\* be handed, with nothing pending
NoForceClear ==
    resource = [pc |-> "idle", timeout |-> 2000, original_timeout |-> 0, before |-> 2000,
                counts_bytes |-> TRUE, pending |-> <<>>, reads |-> 0, initial |-> 0]

\* the history of status changes as the import of monitor.checks leaves it:
\* one change to the normal status per component, three hours old, not yet
\* persisted.  An entry carries its age in measurement intervals in place
\* of its timestamp.  `seen` and `alerted` observe the run: the statuses of
\* the latest measurement, and whether a notification has been caused by a
\* component since it last changed its status.
MonitorKeys == {"pressure", "helium"}
StatusChange(age, status, persisted) == [age |-> age, status |-> status, persisted |-> persisted]
NoReports ==
    _status_changes = [log |-> [k \in MonitorKeys |-> <<StatusChange(1, "NORMAL", FALSE)>>],
                       seen |-> [k \in MonitorKeys |-> "None"],
                       alerted |-> [k \in MonitorKeys |-> FALSE]]

DeviceInit ==
    /\ session = [d \in Devices |-> FALSE]
    /\ lockOwner = [d \in Devices |-> NoThread]
    /\ lockCount = [d \in Devices |-> 0]
    /\ io = <<>>
    /\ call = NoCall
    /\ cpc = [t \in Clients |-> "idle"]
    /\ cval = [t \in Clients |-> None]

Idle(t) == cpc[t] = "idle"

(***************************************************************************)
(* Python arithmetic on floats: every comparison with NaN is False.        *)
(***************************************************************************)
Lt(a, b) == a.kind = "num" /\ b.kind = "num" /\ a.n < b.n
\* max(a, b) keeps a unless b > a; min(a, b) keeps a unless b < a
py_max(a, b) == IF Lt(a, b) THEN b ELSE a
py_min(a, b) == IF Lt(b, a) THEN b ELSE a
Plus(a, k) == IF a.kind = "num" THEN Num(a.n + k) ELSE a

(***************************************************************************)
(* TemperatureController: the sample-space warm-up.                        *)
(***************************************************************************)
_warmup_interval == 20
STARTING_HEATER_MIN_PERCENT == 10
max_size == 5
\* the warm-up target, in tenths of a kelvin
sample_space_warmup_target_temperature == 2550

RECURSIVE Sum(_)
Sum(s) == IF s = <<>> THEN 0 ELSE Head(s) + Sum(Tail(s))

\* - np.diff(temperature_data), in tenths of a kelvin
temperature_diffs(data) == [i \in 1..(Len(data) - 1) |-> data[i].n - data[i + 1].n]

\* np.mean(temperature_diffs) / (warmup_interval / 60) in K/min, as the
\* fraction num/den; NaN when the window holds a NaN or a single value
mean_temp_diff_per_minute(data) ==
    IF Len(data) < 2 \/ \E i \in 1..Len(data) : data[i].kind # "num"
       THEN [nan |-> TRUE, num |-> 0, den |-> 1]
       ELSE [nan |-> FALSE,
             num |-> Sum(temperature_diffs(data)) * 60,
             den |-> (Len(data) - 1) * _warmup_interval * 10]

\* the mutant of RateLt: no rate is ever below a threshold
RateLt_never(rate, p, q) == FALSE

\* the mutant of RateGt: no rate is ever above a threshold
RateGt_never(rate, p, q) == FALSE

\* rate > p/q and rate < p/q (q > 0)
RateGt(rate, p, q) == ~rate.nan /\ rate.num * q > p * rate.den
RateLt(rate, p, q) == ~rate.nan /\ rate.num * q < p * rate.den

\* one thing a tick does after its reads: a setter call, or an exception
W(command, value) == [command |-> command, value |-> value]
RaiseValueError == W("raise", Raised("ValueError"))

\* check_warmup_heater_status after its two reads: the setter calls it makes,
\* in order, closed by RaiseValueError when the enum lookup of the next
\* higher range fails
check_warmup_heater_status(temperature_data, heater_range, heater_manual_output, target_temperature) ==
    LET rate == mean_temp_diff_per_minute(temperature_data)
        last == temperature_data[Len(temperature_data)]
        toHigh == IF heater_range # HIGH
                     THEN <<W("RANGE", set_heater_range_value(Str("High")))>>
                     ELSE <<>>
    IN
    IF Lt(Num(target_temperature - 20), last)
    THEN IF RateGt(rate, 1, 2) \/ Lt(Num(target_temperature + 20), last)
            THEN <<W("MOUT", py_max(Plus(heater_manual_output, -10), Num(0)))>> \o toHigh
         ELSE IF RateLt(rate, -1, 2)
            THEN <<W("MOUT", py_min(Plus(heater_manual_output, 2), Num(50)))>> \o toHigh
         ELSE <<>>
    ELSE IF RateLt(rate, 1, 1)
    THEN IF heater_range = OFF
            THEN <<W("MOUT", Num(STARTING_HEATER_MIN_PERCENT)),
                   W("RANGE", set_heater_range_value(Str("Low")))>>
         ELSE IF Lt(heater_manual_output, Num(HeaterMaxPercent[heater_range]))
            THEN <<W("MOUT", py_min(Plus(heater_manual_output, 5),
                                    Num(HeaterMaxPercent[heater_range])))>>
         ELSE IF heater_range + 1 \in HeaterRangeValues
            THEN <<W("MOUT", Num(STARTING_HEATER_MIN_PERCENT)),
                   W("RANGE", Num(heater_range + 1))>>
         ELSE <<W("MOUT", Num(STARTING_HEATER_MIN_PERCENT)), RaiseValueError>>
    ELSE IF RateGt(rate, 3, 1)
    THEN IF heater_range = OFF THEN <<>>
         ELSE IF Lt(Num(STARTING_HEATER_MIN_PERCENT), heater_manual_output)
            THEN <<W("MOUT", py_max(Plus(heater_manual_output, -5),
                                    Num(STARTING_HEATER_MIN_PERCENT)))>>
         ELSE <<W("RANGE", Num(heater_range - 1)),
                W("MOUT", Num(HeaterMaxPercent[heater_range - 1]))>>
    ELSE <<>>

\* the samples handed to the window of the warm-up loop and to the window of
\* the stabilization loop
NothingPushed == [warmup |-> <<>>, stabilization |-> <<>>]

\* the mutant of roll_append: the window keeps growing
roll_append_unbounded(sample_space_data, new_data) ==
    Append(sample_space_data, new_data)

\* sample_space_data after one more reading
roll_append(sample_space_data, new_data) ==
    IF Len(sample_space_data) < max_size
       THEN Append(sample_space_data, new_data)
       ELSE Append(Tail(sample_space_data), new_data)

\* Thread objects are handed out in a fixed order
WOrder == <<"w1", "w2">>
FreshW ==
    IF \E i \in 1..Len(WOrder) : wpc[WOrder[i]] = "none"
       THEN WOrder[CHOOSE i \in 1..Len(WOrder) :
                      /\ wpc[WOrder[i]] = "none"
                      /\ \A j \in 1..(i - 1) : wpc[WOrder[j]] # "none"]
       ELSE NoThread

Running(w) == wpc[w] \notin {"none", "done"}

\* start_sample_space_warmup: a new Event replaces stop_warmup_event and a
\* new thread runs warmup_loop with it
start_sample_space_warmup(t) ==
    /\ Idle(t)
    /\ FreshW # NoThread
    /\ stop_warmup_event' = FreshW
    /\ evSet' = [evSet EXCEPT ![FreshW] = FALSE]
    /\ wpc' = [wpc EXCEPT ![FreshW] = "init"]
    /\ io' = <<>>
    /\ call' = Call(t, "tc", "start_sample_space_warmup", 0, session["tc"], None, 0, None)
    /\ stopRun' = 0
    /\ UNCHANGED <<sessVars, heaterVars, clientVars, window, hr, wq, stabVars, pureVars>>

\* stop_sample_space_warmup, `self.stop_warmup_event.set()`: None has no set()
stop_set_event(t) ==
    /\ Idle(t)
    /\ io' = <<>>
    /\ IF stop_warmup_event = "None"
          THEN /\ call' = Call(t, "tc", "stop_sample_space_warmup", 0, session["tc"],
                               None, 0, Raised("AttributeError"))
               /\ stopRun' = 0
               /\ UNCHANGED <<evSet, cpc>>
          ELSE /\ call' = Call(t, "tc", "Event.set", 0, session["tc"], None, 0, None)
               /\ evSet' = [evSet EXCEPT ![stop_warmup_event] = TRUE]
               /\ cpc' = [cpc EXCEPT ![t] = "stop_mout"]
               /\ UNCHANGED stopRun
    /\ UNCHANGED <<sessVars, heaterVars, cval, stop_warmup_event, wpc, window, hr, wq, stabVars, pureVars>>

\* stop_sample_space_warmup, after the sleep: set_sample_space_manual_output(0)
stop_write_output(t) ==
    /\ cpc[t] = "stop_mout"
    /\ set_manual_output(t, SAMPLE_SPACE_OUT_CHANNEL, Num(0))
    /\ cpc' = [cpc EXCEPT ![t] = "stop_range"]
    /\ UNCHANGED <<cval, warmVars, stabVars, pureVars>>

\* stop_sample_space_warmup: set_sample_space_heater_range('off'), then it returns
stop_write_range(t) ==
    /\ cpc[t] = "stop_range"
    /\ set_heater_range(t, SAMPLE_SPACE_OUT_CHANNEL, Str("off"))
    /\ cpc' = [cpc EXCEPT ![t] = "idle"]
    /\ stopRun' = IF stopRun < 2 THEN stopRun + 1 ELSE stopRun
    /\ UNCHANGED <<cval, stop_warmup_event, evSet, wpc, window, hr, wq, stabVars, pureVars>>

\* warmup_loop, first line: the window starts with one reading
warmup_first_read(w, reply) ==
    /\ wpc[w] = "init"
    /\ tc_get(w, "temperature", SAMPLE_SPACE_OUT_CHANNEL, reply)
    /\ window' = [window EXCEPT ![w] =
           <<getter_result("temperature", safe_query_result(session["tc"], reply))>>]
    /\ wpc' = [wpc EXCEPT ![w] = "sleep"]
    /\ UNCHANGED <<clientVars, stop_warmup_event, evSet, hr, wq, stopRun, stabVars, pureVars>>

\* warmup_loop: the sleep ended with the thread's Event set, the loop exits
warmup_exit(w) ==
    /\ wpc[w] = "sleep"
    /\ evSet[w]
    /\ wpc' = [wpc EXCEPT ![w] = "done"]
    /\ window' = [window EXCEPT ![w] = <<>>]
    /\ io' = <<>>
    /\ call' = Call(w, "tc", "warmup_loop", 0, session["tc"], None, 0, None)
    /\ UNCHANGED <<sessVars, heaterVars, clientVars, stop_warmup_event, evSet,
                   hr, wq, stopRun, stabVars, pureVars>>

\* the mutant of warmup_read: a tick starts whatever the Event says
warmup_read_ignoring_stop(w, reply) ==
    /\ wpc[w] = "sleep"
    /\ tc_get(w, "temperature", SAMPLE_SPACE_OUT_CHANNEL, reply)
    /\ window' = [window EXCEPT ![w] = roll_append(@,
           getter_result("temperature", safe_query_result(session["tc"], reply)))]
    /\ wpc' = [wpc EXCEPT ![w] = "range"]
    /\ UNCHANGED <<clientVars, stop_warmup_event, evSet, hr, wq, stopRun, stabVars, pureVars>>

\* warmup_loop: the sleep ended with the Event clear, a tick reads the temperature
warmup_read(w, reply) ==
    /\ wpc[w] = "sleep"
    /\ ~evSet[w]
    /\ tc_get(w, "temperature", SAMPLE_SPACE_OUT_CHANNEL, reply)
    /\ window' = [window EXCEPT ![w] = roll_append(@,
           getter_result("temperature", safe_query_result(session["tc"], reply)))]
    /\ wpc' = [wpc EXCEPT ![w] = "range"]
    /\ UNCHANGED <<clientVars, stop_warmup_event, evSet, hr, wq, stopRun, stabVars, pureVars>>

\* check_warmup_heater_status: get_sample_space_heater_range().upper(); an
\* exception ends the tick in warmup_loop's except clause
warmup_get_range(w) ==
    /\ wpc[w] = "range"
    /\ tc_get(w, "heater_range", SAMPLE_SPACE_OUT_CHANNEL,
              NumStr(range[SAMPLE_SPACE_OUT_CHANNEL]))
    /\ LET got == getter_result("heater_range",
                      safe_query_result(session["tc"], NumStr(range[SAMPLE_SPACE_OUT_CHANNEL])))
       IN IF got.kind = "raise"
             THEN /\ wpc' = [wpc EXCEPT ![w] = "sleep"]
                  /\ UNCHANGED hr
             ELSE /\ wpc' = [wpc EXCEPT ![w] = "mout"]
                  /\ hr' = [hr EXCEPT ![w] = HeaterRangeByName[Upper(got.s)]]
    /\ UNCHANGED <<clientVars, stop_warmup_event, evSet, window, wq, stopRun, stabVars, pureVars>>

\* check_warmup_heater_status: get_sample_space_manual_output(), then the decision
warmup_get_output(w) ==
    /\ wpc[w] = "mout"
    /\ tc_get(w, "manual_output", SAMPLE_SPACE_OUT_CHANNEL,
              NumStr(mout[SAMPLE_SPACE_OUT_CHANNEL]))
    /\ LET got == getter_result("manual_output",
                      safe_query_result(session["tc"], NumStr(mout[SAMPLE_SPACE_OUT_CHANNEL])))
           todo == check_warmup_heater_status(window[w], hr[w], got,
                                              sample_space_warmup_target_temperature)
       IN /\ wq' = [wq EXCEPT ![w] = todo]
          /\ wpc' = [wpc EXCEPT ![w] = IF todo = <<>> THEN "sleep" ELSE "write"]
          /\ hr' = [hr EXCEPT ![w] = OFF]
    /\ UNCHANGED <<clientVars, stop_warmup_event, evSet, window, stopRun, stabVars, pureVars>>

\* check_warmup_heater_status: the next setter call of the tick
warmup_write(w) ==
    /\ wpc[w] = "write"
    /\ Head(wq[w]).command # "raise"
    /\ tc_write(w, Head(wq[w]).command, SAMPLE_SPACE_OUT_CHANNEL, Head(wq[w]).value)
    /\ wq' = [wq EXCEPT ![w] = Tail(@)]
    /\ wpc' = [wpc EXCEPT ![w] = IF Tail(wq[w]) = <<>> THEN "sleep" ELSE "write"]
    /\ UNCHANGED <<clientVars, stop_warmup_event, evSet, window, hr, stopRun, stabVars, pureVars>>

\* the mutant of warmup_tick_raises: the exception escapes warmup_loop
warmup_tick_raises_uncaught(w) ==
    /\ wpc[w] = "write"
    /\ Head(wq[w]).command = "raise"
    /\ io' = <<>>
    /\ call' = Call(w, "tc", "check_warmup_heater_status", SAMPLE_SPACE_OUT_CHANNEL,
                    session["tc"], None, range[SAMPLE_SPACE_OUT_CHANNEL], Head(wq[w]).value)
    /\ wq' = [wq EXCEPT ![w] = <<>>]
    /\ wpc' = [wpc EXCEPT ![w] = "done"]
    /\ UNCHANGED <<sessVars, heaterVars, clientVars, stop_warmup_event, evSet,
                   window, hr, stopRun, stabVars, pureVars>>

\* check_warmup_heater_status: HeaterRangeValues(heater_range.value + 1) raises
\* above HIGH; warmup_loop's except clause prints the error
warmup_tick_raises(w) ==
    /\ wpc[w] = "write"
    /\ Head(wq[w]).command = "raise"
    /\ io' = <<>>
    /\ call' = Call(w, "tc", "check_warmup_heater_status", SAMPLE_SPACE_OUT_CHANNEL,
                    session["tc"], None, range[SAMPLE_SPACE_OUT_CHANNEL], Head(wq[w]).value)
    /\ wq' = [wq EXCEPT ![w] = <<>>]
    /\ wpc' = [wpc EXCEPT ![w] = "sleep"]
    /\ UNCHANGED <<sessVars, heaterVars, clientVars, stop_warmup_event, evSet,
                   window, hr, stopRun, stabVars, pureVars>>

\* wrap_single_action(setter)(value): connect, the setter, disconnect, all
\* inside one `with self._lock:`
wrap_single_action(t, command, ch, value) ==
    /\ Idle(t)
    /\ LockAvailable(t, "tc")
    /\ LET s0 == session["tc"]
           s1 == connectSession(s0)
       IN /\ io' = Ops(t, "tc", EnterLock(t, "tc"),
                       connectOps(s0) \o Same(safe_write_ops(s1), s1) \o disconnectOps(s1))
          /\ mout' = IF is_connected(s1) THEN InstrumentMout(command, ch, value) ELSE mout
          /\ range' = IF is_connected(s1) THEN InstrumentRange(command, ch, value) ELSE range
          /\ session' = [session EXCEPT !["tc"] = disconnectSession(s1)]
          /\ call' = Call(t, "tc", command, ch, s1, value, range[ch], None)
    /\ UNCHANGED <<lockOwner, lockCount>>

WarmupInit ==
    /\ stop_warmup_event = "None"
    /\ evSet = [w \in WThreads |-> FALSE]
    /\ wpc = [w \in WThreads |-> "none"]
    /\ window = [w \in WThreads |-> <<>>]
    /\ hr = [w \in WThreads |-> OFF]
    /\ wq = [w \in WThreads |-> <<>>]
    /\ stopRun = 0
    /\ pushed = NothingPushed

(***************************************************************************)
(* ColdHeadHeaterOnPressureStabilization.                                  *)
(***************************************************************************)
manual_output_step == 5
\* `for i in range(10)`: heater-percentage readings behind the baseline
BaselineReads == 10
\* `counter < 60`: half-second waits of start_pressure_stabilization
WaitRetries == 60
\* pressures the gauge reports and the target the operator asks for
Pressures == {1, 3}
get_target_pressure == 2
\* the heater percentage the cold head reports while the baseline is taken
HeaterPercentages == {NumStr(30)}

\* the Event a caller may have stored in the public attribute
\* stop_stabilization_event before the first start: one that is set
PresetEvent == "preset"
EventIsSet(e) == IF e = PresetEvent THEN TRUE ELSE sevSet[e]

SOrder == <<"s1", "s2">>
FreshS ==
    IF \E i \in 1..Len(SOrder) : spc[SOrder[i]] = "none"
       THEN SOrder[CHOOSE i \in 1..Len(SOrder) :
                      /\ spc[SOrder[i]] = "none"
                      /\ \A j \in 1..(i - 1) : spc[SOrder[j]] # "none"]
       ELSE NoThread

SRunning(s) == spc[s] \notin {"none", "done"}

NoLocals == [n |-> 0, sum |-> Num(0), mean |-> None, range |-> None,
             data |-> <<>>, new |-> None]

\* np.mean(pressure_data) < target, for readings that are all numbers
mean_pressure_below(pressure_data, target) ==
    Len(pressure_data) > 0 /\ Sum(pressure_data) < target * Len(pressure_data)

\* attempt_stabilization_by_pressure: the manual output it writes, given the
\* manual output it read
attempt_stabilization_by_pressure(pressure_data, cold_head_manual_output, target) ==
    IF mean_pressure_below(pressure_data, target)
       THEN py_max(Plus(cold_head_manual_output, -manual_output_step), Num(0))
       ELSE py_min(Plus(cold_head_manual_output, -manual_output_step), Num(80))

\* the mutant of mean_heater_percentage: the sum of the readings, undivided
mean_heater_percentage_undivided(sum) == sum

\* round(np.mean(cold_head_heater_percentage_data), 1)
mean_heater_percentage(sum) ==
    IF sum.kind = "num" THEN Num(sum.n \div BaselineReads) ELSE NaN

\* a caller stores a set Event in the attribute that __init__ leaves None
preset_stop_stabilization_event(t) ==
    /\ Idle(t)
    /\ stop_stabilization_event = "None"
    /\ stop_stabilization_event' = PresetEvent
    /\ io' = <<>>
    /\ call' = Call(t, "tc", "preset_stop_stabilization_event", 0, session["tc"], None, 0, None)
    /\ UNCHANGED <<sessVars, heaterVars, clientVars, warmVars, pureVars,
                   sevSet, stabilization_is_on, spc, sloc>>

\* start_pressure_stabilization, first line: `if not
\* self.stop_stabilization_event.is_set(): return`; None has no is_set()
start_check(t) ==
    /\ Idle(t)
    /\ FreshS # NoThread
    /\ io' = <<>>
    /\ IF stop_stabilization_event = "None"
          THEN /\ call' = Call(t, "tc", "start_pressure_stabilization", 0, session["tc"],
                               None, 0, Raised("AttributeError"))
               /\ UNCHANGED clientVars
          ELSE IF ~EventIsSet(stop_stabilization_event)
          THEN /\ call' = Call(t, "tc", "start_pressure_stabilization", 0, session["tc"],
                               None, 0, None)
               /\ UNCHANGED clientVars
          ELSE /\ call' = Call(t, "tc", "Event.is_set", 0, session["tc"], None, 0, None)
               /\ cpc' = [cpc EXCEPT ![t] = "start_wait"]
               /\ cval' = [cval EXCEPT ![t] = Num(0)]
    /\ UNCHANGED <<sessVars, heaterVars, warmVars, stabVars, pureVars>>

\* start_pressure_stabilization: one round of the wait loop
start_wait(t) ==
    /\ cpc[t] = "start_wait"
    /\ stabilization_is_on /\ cval[t].n < WaitRetries
    /\ cval' = [cval EXCEPT ![t] = Num(@.n + 1)]
    /\ io' = <<>>
    /\ call' = Call(t, "tc", "sleep", 0, session["tc"], None, 0, None)
    /\ UNCHANGED <<sessVars, heaterVars, cpc, warmVars, stabVars, pureVars>>

\* start_pressure_stabilization: the wait loop is over, a new Event and a new
\* thread are created; the call records the rounds waited
start_launch(t) ==
    /\ cpc[t] = "start_wait"
    /\ ~(stabilization_is_on /\ cval[t].n < WaitRetries)
    /\ stop_stabilization_event' = FreshS
    /\ sevSet' = [sevSet EXCEPT ![FreshS] = FALSE]
    /\ spc' = [spc EXCEPT ![FreshS] = "init"]
    /\ cpc' = [cpc EXCEPT ![t] = "idle"]
    /\ cval' = [cval EXCEPT ![t] = None]
    /\ io' = <<>>
    /\ call' = Call(t, "tc", "start_pressure_stabilization", 0, session["tc"],
                    cval[t], 0, Str("launched"))
    /\ UNCHANGED <<sessVars, heaterVars, warmVars, pureVars, stabilization_is_on, sloc>>

\* stop_pressure_stabilization: `self.stop_stabilization_event.set()`
stop_pressure_stabilization(t) ==
    /\ Idle(t)
    /\ io' = <<>>
    /\ IF stop_stabilization_event = "None"
          THEN /\ call' = Call(t, "tc", "stop_pressure_stabilization", 0, session["tc"],
                               None, 0, Raised("AttributeError"))
               /\ UNCHANGED sevSet
          ELSE /\ call' = Call(t, "tc", "stop_pressure_stabilization", 0, session["tc"],
                               None, 0, None)
               /\ sevSet' = IF stop_stabilization_event = PresetEvent THEN sevSet
                            ELSE [sevSet EXCEPT ![stop_stabilization_event] = TRUE]
    /\ UNCHANGED <<sessVars, heaterVars, clientVars, warmVars, pureVars,
                   stop_stabilization_event, stabilization_is_on, spc, sloc>>

\* stabilization_loop, first line: stabilization_is_on.set()
stab_begin(s) ==
    /\ spc[s] = "init"
    /\ stabilization_is_on' = TRUE
    /\ spc' = [spc EXCEPT ![s] = "baseline"]
    /\ sloc' = [sloc EXCEPT ![s] = NoLocals]
    /\ io' = <<>>
    /\ call' = Call(s, "tc", "stabilization_is_on.set", 0, session["tc"], None, 0, None)
    /\ UNCHANGED <<sessVars, heaterVars, clientVars, warmVars, pureVars,
                   stop_stabilization_event, sevSet>>

\* stabilization_loop, one round of the baseline: connect, read the heater
\* percentage, disconnect, all inside `with temperature_controller._lock:`
stab_baseline_read(s, reply) ==
    /\ spc[s] = "baseline"
    /\ LockAvailable(s, "tc")
    /\ LET s0 == session["tc"]
           s1 == connectSession(s0)
           got == getter_result("heater_percentage", safe_query_result(s1, reply))
           sum == IF got.kind = "num" /\ sloc[s].sum.kind = "num"
                     THEN Num(sloc[s].sum.n + got.n) ELSE NaN
       IN /\ io' = Ops(s, "tc", EnterLock(s, "tc"),
                       connectOps(s0) \o Same(safe_query_ops(s1, 0, FALSE), s1)
                       \o disconnectOps(s1))
          /\ session' = [session EXCEPT !["tc"] = disconnectSession(s1)]
          /\ call' = Call(s, "tc", "heater_percentage", COLD_HEAD_OUT_CHANNEL, s1, None,
                          range[COLD_HEAD_OUT_CHANNEL], got)
          /\ sloc' = [sloc EXCEPT ![s].n = @ + 1, ![s].sum = sum,
                                  ![s].mean = IF sloc[s].n + 1 = BaselineReads
                                                 THEN mean_heater_percentage(sum) ELSE None]
          /\ spc' = [spc EXCEPT ![s] = IF sloc[s].n + 1 = BaselineReads
                                          THEN "switch" ELSE "baseline"]
    /\ UNCHANGED <<lockOwner, lockCount, heaterVars, clientVars, warmVars, pureVars,
                   stop_stabilization_event, sevSet, stabilization_is_on>>

\* the switch at either end of the loop, inside one `with _lock:`: connect,
\* range 'off', manual output = baseline, range back, disconnect; the channel
\* operations, and the instrument's state after the three writes
switchOps(s0, reading) ==
    connectOps(s0)
    \o (IF reading THEN Same(safe_query_ops(connectSession(s0), 0, FALSE), connectSession(s0))
                   ELSE <<>>)
    \o Same(safe_write_ops(connectSession(s0)) \o safe_write_ops(connectSession(s0))
            \o safe_write_ops(connectSession(s0)), connectSession(s0))
    \o disconnectOps(connectSession(s0))

switchRange(s0, heater_range) ==
    IF ~is_connected(connectSession(s0)) THEN range
    ELSE IF set_heater_range_value(heater_range).kind = "num"
            /\ set_heater_range_value(heater_range).n \in HeaterRangeValues
       THEN [range EXCEPT ![COLD_HEAD_OUT_CHANNEL] = set_heater_range_value(heater_range).n]
       ELSE [range EXCEPT ![COLD_HEAD_OUT_CHANNEL] = OFF]

switchMout(s0, mean) ==
    IF ~is_connected(connectSession(s0)) THEN mout
    ELSE InstrumentMout("MOUT", COLD_HEAD_OUT_CHANNEL, mean)

\* stabilization_loop, the startup switch; it remembers the range name it read
stab_startup_switch(s) ==
    /\ spc[s] = "switch"
    /\ LockAvailable(s, "tc")
    /\ LET s0 == session["tc"]
           s1 == connectSession(s0)
           got == getter_result("heater_range",
                      safe_query_result(s1, NumStr(range[COLD_HEAD_OUT_CHANNEL])))
       IN IF got.kind = "raise"
             THEN \* the exception ends the thread; the session is left open
                  /\ io' = Ops(s, "tc", EnterLock(s, "tc"),
                               connectOps(s0) \o Same(safe_query_ops(s1, 0, FALSE), s1))
                  /\ session' = [session EXCEPT !["tc"] = s1]
                  /\ call' = Call(s, "tc", "heater_range", COLD_HEAD_OUT_CHANNEL, s1, None,
                                  range[COLD_HEAD_OUT_CHANNEL], got)
                  /\ spc' = [spc EXCEPT ![s] = "done"]
                  /\ UNCHANGED <<heaterVars, sloc>>
             ELSE /\ io' = Ops(s, "tc", EnterLock(s, "tc"), switchOps(s0, TRUE))
                  /\ session' = [session EXCEPT !["tc"] = disconnectSession(s1)]
                  /\ mout' = switchMout(s0, sloc[s].mean)
                  /\ range' = switchRange(s0, got)
                  /\ call' = Call(s, "tc", "MOUT", COLD_HEAD_OUT_CHANNEL, s1, sloc[s].mean,
                                  OFF, None)
                  /\ sloc' = [sloc EXCEPT ![s].range = got]
                  /\ spc' = [spc EXCEPT ![s] = "pressure"]
    /\ UNCHANGED <<lockOwner, lockCount, clientVars, warmVars, pureVars,
                   stop_stabilization_event, sevSet, stabilization_is_on>>

\* stabilization_loop: pressure_data starts with one reading
stab_first_pressure(s, p) ==
    /\ spc[s] = "pressure"
    /\ sloc' = [sloc EXCEPT ![s].data = <<p>>]
    /\ spc' = [spc EXCEPT ![s] = "loop"]
    /\ io' = <<>>
    /\ call' = Call(s, "tc", "pressure_read_method", 0, session["tc"], None, 0, Num(p))
    /\ UNCHANGED <<sessVars, heaterVars, clientVars, warmVars, pureVars,
                   stop_stabilization_event, sevSet, stabilization_is_on>>

\* stabilization_loop: the first pressure_read_method() raises; it is called
\* outside the try block of the loop, so the exception ends the thread and
\* stabilization_is_on.clear() is not reached
stab_first_pressure_raises(s) ==
    /\ spc[s] = "pressure"
    /\ spc' = [spc EXCEPT ![s] = "done"]
    /\ io' = <<>>
    /\ call' = Call(s, "tc", "pressure_read_method", 0, session["tc"], None, 0,
                    Raised("Exception"))
    /\ UNCHANGED <<sessVars, heaterVars, clientVars, warmVars, pureVars,
                   stop_stabilization_event, sevSet, stabilization_is_on, sloc>>

\* stabilization_loop: the Event is clear, a tick reads the pressure
stab_tick_read(s, p) ==
    /\ spc[s] = "loop"
    /\ ~sevSet[s]
    /\ sloc' = [sloc EXCEPT ![s].data = roll_append(@, p)]
    /\ spc' = [spc EXCEPT ![s] = "get"]
    /\ io' = <<>>
    /\ call' = Call(s, "tc", "pressure_read_method", 0, session["tc"], None, 0, Num(p))
    /\ UNCHANGED <<sessVars, heaterVars, clientVars, warmVars, pureVars,
                   stop_stabilization_event, sevSet, stabilization_is_on>>

\* stabilization_loop: pressure_read_method() raises inside the tick's try
\* block; the except clause prints the error and the loop goes on
stab_tick_read_raises(s) ==
    /\ spc[s] = "loop"
    /\ ~sevSet[s]
    /\ io' = <<>>
    /\ call' = Call(s, "tc", "pressure_read_method", 0, session["tc"], None, 0,
                    Raised("Exception"))
    /\ UNCHANGED <<sessVars, heaterVars, clientVars, warmVars, pureVars, stabVars>>

\* attempt_stabilization_by_pressure: get_cold_head_manual_output()
stab_get_output(s) ==
    /\ spc[s] = "get"
    /\ tc_get(s, "manual_output", COLD_HEAD_OUT_CHANNEL, NumStr(mout[COLD_HEAD_OUT_CHANNEL]))
    /\ LET got == getter_result("manual_output",
                      safe_query_result(session["tc"], NumStr(mout[COLD_HEAD_OUT_CHANNEL])))
       IN sloc' = [sloc EXCEPT ![s].new =
                      attempt_stabilization_by_pressure(sloc[s].data, got, get_target_pressure)]
    /\ spc' = [spc EXCEPT ![s] = "set"]
    /\ UNCHANGED <<clientVars, warmVars, pureVars, stop_stabilization_event, sevSet, stabilization_is_on>>

\* attempt_stabilization_by_pressure: set_cold_head_manual_output(new value)
stab_set_output(s) ==
    /\ spc[s] = "set"
    /\ tc_write(s, "MOUT", COLD_HEAD_OUT_CHANNEL, sloc[s].new)
    /\ sloc' = [sloc EXCEPT ![s].new = None]
    /\ spc' = [spc EXCEPT ![s] = "loop"]
    /\ UNCHANGED <<clientVars, warmVars, pureVars, stop_stabilization_event, sevSet, stabilization_is_on>>

\* stabilization_loop: the Event is set, the loop ends with the shutdown switch
stab_shutdown_switch(s) ==
    /\ spc[s] = "loop"
    /\ sevSet[s]
    /\ LockAvailable(s, "tc")
    /\ io' = Ops(s, "tc", EnterLock(s, "tc"), switchOps(session["tc"], FALSE))
    /\ session' = [session EXCEPT !["tc"] = disconnectSession(connectSession(session["tc"]))]
    /\ mout' = switchMout(session["tc"], sloc[s].mean)
    /\ range' = switchRange(session["tc"], sloc[s].range)
    /\ call' = Call(s, "tc", "MOUT", COLD_HEAD_OUT_CHANNEL, connectSession(session["tc"]),
                    sloc[s].mean, OFF, None)
    /\ sloc' = [sloc EXCEPT ![s] = NoLocals]
    /\ spc' = [spc EXCEPT ![s] = "clear"]
    /\ UNCHANGED <<lockOwner, lockCount, clientVars, warmVars, pureVars,
                   stop_stabilization_event, sevSet, stabilization_is_on>>

\* stabilization_loop, last line: stabilization_is_on.clear()
stab_clear(s) ==
    /\ spc[s] = "clear"
    /\ stabilization_is_on' = FALSE
    /\ spc' = [spc EXCEPT ![s] = "done"]
    /\ io' = <<>>
    /\ call' = Call(s, "tc", "stabilization_is_on.clear", 0, session["tc"], None, 0, None)
    /\ UNCHANGED <<sessVars, heaterVars, clientVars, warmVars, pureVars,
                   stop_stabilization_event, sevSet, sloc>>

StabInit ==
    /\ stop_stabilization_event = "None"
    /\ sevSet = [s \in SThreads |-> FALSE]
    /\ stabilization_is_on = FALSE
    /\ spc = [s \in SThreads |-> "none"]
    /\ sloc = [s \in SThreads |-> NoLocals]

(***************************************************************************)
(* SpecWarmup: the GUI thread starts and stops the warm-up, opens and      *)
(* closes the session and sets the manual output while warm-up threads run.*)
(***************************************************************************)
\* the windows of all warm-up threads together hold at most MaxReadings
\* readings, those of all stabilization threads at most MaxPressureReadings
ReadingsLeft ==
    Sum([i \in 1..Len(WOrder) |-> Len(window[WOrder[i]])]) <= MaxReadings
PressureReadingsLeft ==
    Sum([i \in 1..Len(SOrder) |-> Len(sloc[SOrder[i]].data)]) <= MaxPressureReadings

\* heater states of the sample-space output before the program touches it
InitHeaterStates == {<<OFF, 0>>, <<OFF, 100>>, <<LOW, 10>>, <<HIGH, 50>>}

InitWarmup ==
    /\ DeviceInit
    /\ NoDiscovery
    /\ NoForceClear
    /\ NoReports
    /\ WarmupInit
    /\ StabInit
    /\ \E h \in InitHeaterStates :
          /\ mout = [c \in OutChannels |-> IF c = SAMPLE_SPACE_OUT_CHANNEL THEN h[2] ELSE 0]
          /\ range = [c \in OutChannels |-> IF c = SAMPLE_SPACE_OUT_CHANNEL THEN h[1] ELSE OFF]

\* a call of the GUI thread other than stop_sample_space_warmup
Other(t) ==
    /\ Idle(t)
    /\ stopRun' = 0
    /\ UNCHANGED <<clientVars, stop_warmup_event, evSet, wpc, window, hr, wq, stabVars, pureVars>>

\* the previous warm-up, if any, has been told to stop
PreviousStopped ==
    IF stop_warmup_event = "None" THEN TRUE ELSE evSet[stop_warmup_event]

\* temperatures the sample reports during a warm-up: far below the target
\* and above its upper margin
WarmupReplies == {NumStr(2400), NumStr(2580)}

NextWarmup ==
    \/ PreviousStopped /\ start_sample_space_warmup("gui")
    \/ stop_set_event("gui")
    \/ stop_write_output("gui")
    \/ stop_write_range("gui")
    \/ connect("gui", "tc") /\ Other("gui")
    \/ disconnect("gui", "tc") /\ Other("gui")
    \/ wrap_single_action("gui", "MOUT", SAMPLE_SPACE_OUT_CHANNEL, Num(50)) /\ Other("gui")
    \/ \E w \in WThreads, reply \in WarmupReplies : warmup_first_read(w, reply)
    \/ \E w \in WThreads : warmup_exit(w)
    \/ \E w \in WThreads, reply \in WarmupReplies : ReadingsLeft /\ warmup_read(w, reply)
    \/ \E w \in WThreads : warmup_get_range(w)
    \/ \E w \in WThreads : warmup_get_output(w)
    \/ \E w \in WThreads : warmup_write(w)
    \/ \E w \in WThreads : warmup_tick_raises(w)

SpecWarmup == InitWarmup /\ [][NextWarmup]_vars

(***************************************************************************)
(* SpecRestart: a caller of the API starts a warm-up whenever it likes,    *)
(* also while an earlier loop runs; the sample stays at one temperature.   *)
(***************************************************************************)
NextRestart ==
    \/ start_sample_space_warmup("gui")
    \/ stop_set_event("gui")
    \/ stop_write_output("gui")
    \/ stop_write_range("gui")
    \/ connect("gui", "tc") /\ Other("gui")
    \/ \E w \in WThreads, reply \in {NumStr(2400)} : warmup_first_read(w, reply)
    \/ \E w \in WThreads : warmup_exit(w)
    \/ \E w \in WThreads, reply \in {NumStr(2400)} : ReadingsLeft /\ warmup_read(w, reply)
    \/ \E w \in WThreads : warmup_get_range(w)
    \/ \E w \in WThreads : warmup_get_output(w)
    \/ \E w \in WThreads : warmup_write(w)
    \/ \E w \in WThreads : warmup_tick_raises(w)

SpecRestart == InitWarmup /\ [][NextRestart]_vars

(***************************************************************************)
(* SpecStab: a caller starts and stops the pressure stabilization and      *)
(* opens the session while stabilization threads run.                      *)
(***************************************************************************)
InitStab ==
    /\ DeviceInit
    /\ NoDiscovery
    /\ NoForceClear
    /\ NoReports
    /\ WarmupInit
    /\ StabInit
    /\ mout = [c \in OutChannels |-> IF c = COLD_HEAD_OUT_CHANNEL THEN 40 ELSE 0]
    /\ range = [c \in OutChannels |-> IF c = COLD_HEAD_OUT_CHANNEL THEN MEDIUM ELSE OFF]

NextStab ==
    \/ preset_stop_stabilization_event("gui")
    \/ start_check("gui")
    \/ start_wait("gui")
    \/ start_launch("gui")
    \/ stop_pressure_stabilization("gui")
    \/ connect("gui", "tc") /\ Idle("gui") /\ UNCHANGED <<clientVars, warmVars, stabVars, pureVars>>
    \/ \E s \in SThreads : stab_begin(s)
    \/ \E s \in SThreads, reply \in HeaterPercentages : stab_baseline_read(s, reply)
    \/ \E s \in SThreads : stab_startup_switch(s)
    \/ \E s \in SThreads, p \in Pressures : stab_first_pressure(s, p)
    \/ \E s \in SThreads : stab_first_pressure_raises(s)
    \/ \E s \in SThreads, p \in Pressures : PressureReadingsLeft /\ stab_tick_read(s, p)
    \/ \E s \in SThreads : stab_tick_read_raises(s)
    \/ \E s \in SThreads : stab_get_output(s)
    \/ \E s \in SThreads : stab_set_output(s)
    \/ \E s \in SThreads : stab_shutdown_switch(s)
    \/ \E s \in SThreads : stab_clear(s)

SpecStab == InitStab /\ [][NextStab]_vars

(***************************************************************************)
(* SpecLoops: one warm-up loop and one stabilization loop, started and     *)
(* stopped by the GUI thread one after the other; the sample-space heater  *)
(* starts at the ceiling of HIGH.  Every loop thread keeps being scheduled.*)
(***************************************************************************)
InitLoops ==
    /\ DeviceInit
    /\ NoDiscovery
    /\ NoForceClear
    /\ NoReports
    /\ WarmupInit
    /\ StabInit
    /\ mout = [c \in OutChannels |-> IF c = COLD_HEAD_OUT_CHANNEL THEN 40 ELSE 50]
    /\ range = [c \in OutChannels |-> IF c = COLD_HEAD_OUT_CHANNEL THEN MEDIUM ELSE HIGH]

\* no control loop of either kind is alive
NoLoopAlive ==
    /\ \A w \in WThreads : ~Running(w)
    /\ \A s \in SThreads : ~SRunning(s)

\* a step of warmup_loop in thread w, of stabilization_loop in thread s
WarmupStep(w) ==
    \/ \E reply \in {NumStr(2400)} : warmup_first_read(w, reply)
    \/ warmup_exit(w)
    \/ \E reply \in {NumStr(2400)} : ReadingsLeft /\ warmup_read(w, reply)
    \/ warmup_get_range(w)
    \/ warmup_get_output(w)
    \/ warmup_write(w)
    \/ warmup_tick_raises(w)

StabilizationStep(s) ==
    \/ stab_begin(s)
    \/ \E reply \in HeaterPercentages : stab_baseline_read(s, reply)
    \/ stab_startup_switch(s)
    \/ \E p \in Pressures : stab_first_pressure(s, p)
    \/ stab_first_pressure_raises(s)
    \/ \E p \in Pressures : PressureReadingsLeft /\ stab_tick_read(s, p)
    \/ stab_tick_read_raises(s)
    \/ stab_get_output(s)
    \/ stab_set_output(s)
    \/ stab_shutdown_switch(s)
    \/ stab_clear(s)

NextLoops ==
    \/ wpc[WOrder[1]] = "none" /\ NoLoopAlive /\ start_sample_space_warmup("gui")
    \/ stop_set_event("gui")
    \/ stop_write_output("gui")
    \/ stop_write_range("gui")
    \/ connect("gui", "tc") /\ Other("gui")
    \/ preset_stop_stabilization_event("gui")
    \/ spc[SOrder[1]] = "none" /\ NoLoopAlive /\ start_check("gui")
    \/ start_launch("gui")
    \/ stop_pressure_stabilization("gui")
    \/ \E w \in WThreads, reply \in {NumStr(2400)} : warmup_first_read(w, reply)
    \/ \E w \in WThreads : warmup_exit(w)
    \/ \E w \in WThreads, reply \in {NumStr(2400)} : ReadingsLeft /\ warmup_read(w, reply)
    \/ \E w \in WThreads : warmup_get_range(w)
    \/ \E w \in WThreads : warmup_get_output(w)
    \/ \E w \in WThreads : warmup_write(w)
    \/ \E w \in WThreads : warmup_tick_raises(w)
    \/ \E s \in SThreads : stab_begin(s)
    \/ \E s \in SThreads, reply \in HeaterPercentages : stab_baseline_read(s, reply)
    \/ \E s \in SThreads : stab_startup_switch(s)
    \/ \E s \in SThreads, p \in Pressures : stab_first_pressure(s, p)
    \/ \E s \in SThreads : stab_first_pressure_raises(s)
    \/ \E s \in SThreads, p \in Pressures : PressureReadingsLeft /\ stab_tick_read(s, p)
    \/ \E s \in SThreads : stab_tick_read_raises(s)
    \/ \E s \in SThreads : stab_get_output(s)
    \/ \E s \in SThreads : stab_set_output(s)
    \/ \E s \in SThreads : stab_shutdown_switch(s)
    \/ \E s \in SThreads : stab_clear(s)

SpecLoops ==
    /\ InitLoops
    /\ [][NextLoops]_vars
    /\ \A w \in WThreads : WF_vars(WarmupStep(w))
    /\ \A s \in SThreads : WF_vars(StabilizationStep(s))

(***************************************************************************)
(* SpecWindow: the rolling windows of the two loops by themselves: each    *)
(* loop has taken its first sample and is handed further samples.          *)
(***************************************************************************)
\* samples handed to a window in one behaviour
MaxPushes == 7
\* the samples: temperatures in tenths of a kelvin, pressures
WindowSamples == {2400, 2410}

InitWindow ==
    /\ DeviceInit
    /\ NoDiscovery
    /\ NoForceClear
    /\ NoReports
    /\ mout = [c \in OutChannels |-> IF c = COLD_HEAD_OUT_CHANNEL THEN 30 ELSE 0]
    /\ range = [c \in OutChannels |-> IF c = COLD_HEAD_OUT_CHANNEL THEN MEDIUM ELSE OFF]
    /\ stop_warmup_event = WOrder[1]
    /\ evSet = [w \in WThreads |-> FALSE]
    /\ wpc = [w \in WThreads |-> IF w = WOrder[1] THEN "sleep" ELSE "none"]
    /\ hr = [w \in WThreads |-> OFF]
    /\ wq = [w \in WThreads |-> <<>>]
    /\ stopRun = 0
    /\ stop_stabilization_event = SOrder[1]
    /\ sevSet = [s \in SThreads |-> FALSE]
    /\ stabilization_is_on = TRUE
    /\ spc = [s \in SThreads |-> IF s = SOrder[1] THEN "pressure" ELSE "none"]
    /\ sloc = [s \in SThreads |->
                 IF s = SOrder[1]
                    THEN [NoLocals EXCEPT !.n = BaselineReads, !.sum = Num(300),
                                          !.mean = Num(30), !.range = Str("Medium")]
                    ELSE NoLocals]
    /\ \E x \in WindowSamples :
          /\ window = [w \in WThreads |-> IF w = WOrder[1] THEN <<Num(x)>> ELSE <<>>]
          /\ pushed = [warmup |-> <<Num(x)>>, stabilization |-> <<>>]

\* warmup_loop, the lines that put new_data into sample_space_data
window_push(w, new_data) ==
    /\ Len(pushed.warmup) < MaxPushes
    /\ window' = [window EXCEPT ![w] = roll_append(@, new_data)]
    /\ pushed' = [pushed EXCEPT !.warmup = Append(@, new_data)]
    /\ io' = <<>>
    /\ call' = Call(w, "tc", "roll_append", 0, session["tc"], new_data, 0, None)
    /\ UNCHANGED <<sessVars, heaterVars, clientVars, stop_warmup_event, evSet, wpc,
                   hr, wq, stopRun, stabVars, channels, resource, _status_changes>>

\* stabilization_loop, the lines that put new_data into pressure_data (the
\* first sample makes the window, the later ones are appended)
pressure_push(s, new_data) ==
    /\ Len(pushed.stabilization) < MaxPushes
    /\ sloc' = [sloc EXCEPT ![s].data =
                   IF pushed.stabilization = <<>> THEN <<new_data>>
                   ELSE roll_append(@, new_data)]
    /\ pushed' = [pushed EXCEPT !.stabilization = Append(@, new_data)]
    /\ io' = <<>>
    /\ call' = Call(s, "tc", "roll_append", 0, session["tc"], Num(new_data), 0, None)
    /\ UNCHANGED <<sessVars, heaterVars, clientVars, warmVars,
                   stop_stabilization_event, sevSet, stabilization_is_on, spc,
                   channels, resource, _status_changes>>

NextWindow ==
    \/ \E x \in WindowSamples : window_push(WOrder[1], Num(x))
    \/ \E p \in Pressures : pressure_push(SOrder[1], p)

SpecWindow == InitWindow /\ [][NextWindow]_vars

(***************************************************************************)
(* Discovery: MessageBasedDevice.from_idn / from_visa_attribute on top of  *)
(* find_available_resources_by_idn / _by_visa_attribute.  Text is a        *)
(* sequence of characters.                                                 *)
(***************************************************************************)
\* channels listed in one discovery
MaxChannels == 3
\* a listed channel: "ok", "busy" (open_resource raises VisaIOError) or
\* "fault" (a call of the probe raises VisaIOError after the open)
ChannelStates == {"ok", "busy", "fault"}
\* what a channel reports as its identity or as the attribute asked for
Identities == {<<"L", "S">>, <<"L", "S", "3">>, <<"A">>}
\* the identity or attribute value the caller looks for
DesiredValue == <<"L", "S">>
\* `open`: a session that a search opened on the channel is still open
ChannelKinds ==
    [state : ChannelStates, message_based : BOOLEAN, value : Identities, open : {FALSE}]

\* Python's `a in b` on strings
IsSubstring(a, b) ==
    \E i \in 0..(Len(b) - Len(a)) : SubSeq(b, i + 1, i + Len(a)) = a

\* match_condition of the two finders
match_condition(desired, value, is_partial) ==
    IF is_partial THEN IsSubstring(desired, value) ELSE value = desired

\* the mutant of find_available_resources_by_idn: a failed probe ends the scan
RECURSIVE find_available_resources_by_idn_aborting(_, _, _, _)
find_available_resources_by_idn_aborting(resources, i, desired_idn, is_partial) ==
    IF i > Len(resources) THEN <<>>
    ELSE LET rest == find_available_resources_by_idn_aborting(resources, i + 1, desired_idn,
                                                              is_partial)
         IN IF resources[i].state = "busy" THEN rest
            ELSE IF ~resources[i].message_based THEN rest
            ELSE IF resources[i].state = "fault" THEN <<>>
            ELSE IF match_condition(desired_idn, resources[i].value, is_partial)
                    THEN <<i>> \o rest
            ELSE rest

\* find_available_resources_by_idn: the loop over rm.list_resources() from
\* position i on; the result lists the positions of the matching resources
RECURSIVE find_available_resources_by_idn(_, _, _, _)
find_available_resources_by_idn(resources, i, desired_idn, is_partial) ==
    IF i > Len(resources) THEN <<>>
    ELSE LET rest == find_available_resources_by_idn(resources, i + 1, desired_idn, is_partial)
         IN IF resources[i].state = "busy" THEN rest
            ELSE IF ~resources[i].message_based THEN rest
            ELSE IF resources[i].state = "fault" THEN rest
            ELSE IF match_condition(desired_idn, resources[i].value, is_partial)
                    THEN <<i>> \o rest
            ELSE rest

\* find_available_resources_by_visa_attribute: the same loop for an attribute
RECURSIVE find_available_resources_by_visa_attribute(_, _, _, _)
find_available_resources_by_visa_attribute(resources, i, desired_attr_value, is_partial) ==
    IF i > Len(resources) THEN <<>>
    ELSE LET rest == find_available_resources_by_visa_attribute(resources, i + 1,
                                                                 desired_attr_value, is_partial)
         IN IF resources[i].state # "ok" THEN rest
            ELSE IF match_condition(desired_attr_value, resources[i].value, is_partial)
                    THEN <<i>> \o rest
            ELSE rest

\* the session of one listed resource after the loop body of
\* find_available_resources_by_idn: rm.open_resource raises for a busy
\* channel; resource.close() is called at the end of the probe of a
\* MessageBasedResource and in `except VisaIOError`, and nowhere for a
\* resource that is not message based
probe_by_idn(listed) ==
    IF listed.state = "busy" THEN listed
    ELSE IF ~listed.message_based THEN [listed EXCEPT !.open = TRUE]
    ELSE listed

\* the same for find_available_resources_by_visa_attribute: one try block
\* holds the open, the probe and listed.close(); `except VisaIOError:
\* pass` does not close
probe_by_visa_attribute(listed) ==
    IF listed.state = "busy" THEN listed
    ELSE IF listed.state = "fault" THEN [listed EXCEPT !.open = TRUE]
    ELSE listed

\* the mutant of exactly_one: the first of several matches is taken
exactly_one_or_first(resource_list) ==
    IF Len(resource_list) = 0 THEN Raised("ValueError: No resource found")
    ELSE Num(resource_list[1])

\* from_idn / from_visa_attribute after the search: the device of the only
\* match, or a ValueError whose message tells none from several
exactly_one(resource_list) ==
    IF Len(resource_list) = 0 THEN Raised("ValueError: No resource found")
    ELSE IF Len(resource_list) > 1 THEN Raised("ValueError: Multiple resources found")
    ELSE Num(resource_list[1])

IsPartial(is_partial) == IF is_partial THEN Str("partial") ELSE Str("exact")

\* MessageBasedDevice.from_idn
from_idn(t, desired_idn, is_partial) ==
    /\ Idle(t)
    /\ io' = <<>>
    /\ call' = Call(t, "tc", "from_idn", 0, FALSE, IsPartial(is_partial), 0,
                    exactly_one(find_available_resources_by_idn(channels, 1, desired_idn,
                                                                is_partial)))
    /\ channels' = [i \in DOMAIN channels |-> probe_by_idn(channels[i])]
    /\ UNCHANGED <<sessVars, heaterVars, clientVars, warmVars, stabVars, pushed, resource, _status_changes>>

\* a direct call of find_available_resources_by_idn: the list it returns
ResourceList(list) == [kind |-> "list", n |-> 0, s |-> "", list |-> list]
call_find_available_resources_by_idn(t, desired_idn, is_partial) ==
    /\ Idle(t)
    /\ io' = <<>>
    /\ call' = Call(t, "tc", "find_available_resources_by_idn", 0, FALSE,
                    IsPartial(is_partial), 0,
                    ResourceList(find_available_resources_by_idn(channels, 1, desired_idn,
                                                                 is_partial)))
    /\ channels' = [i \in DOMAIN channels |-> probe_by_idn(channels[i])]
    /\ UNCHANGED <<sessVars, heaterVars, clientVars, warmVars, stabVars, pushed, resource, _status_changes>>

\* MessageBasedDevice.from_visa_attribute: the only match must also be a
\* MessageBasedResource
from_visa_attribute(t, desired_attr_value, is_partial) ==
    /\ Idle(t)
    /\ io' = <<>>
    /\ LET resource_list == find_available_resources_by_visa_attribute(
                                channels, 1, desired_attr_value, is_partial)
           found == exactly_one(resource_list)
       IN call' = Call(t, "tc", "from_visa_attribute", 0, FALSE, IsPartial(is_partial), 0,
                       IF found.kind = "num" /\ ~channels[found.n].message_based
                          THEN Raised("ValueError: not a MessageBasedResource")
                          ELSE found)
    /\ channels' = [i \in DOMAIN channels |-> probe_by_visa_attribute(channels[i])]
    /\ UNCHANGED <<sessVars, heaterVars, clientVars, warmVars, stabVars, pushed, resource, _status_changes>>

\* every list of at most MaxChannels channels
ChannelLists ==
    UNION {[1..n -> ChannelKinds] : n \in 0..MaxChannels}

InitDiscovery ==
    /\ DeviceInit
    /\ WarmupInit
    /\ StabInit
    /\ mout = [c \in OutChannels |-> 0]
    /\ range = [c \in OutChannels |-> OFF]
    /\ channels \in ChannelLists
    /\ NoForceClear
    /\ NoReports

NextDiscovery ==
    \/ \E is_partial \in BOOLEAN : from_idn("gui", DesiredValue, is_partial)
    \/ \E is_partial \in BOOLEAN : from_visa_attribute("gui", DesiredValue, is_partial)
    \/ \E is_partial \in BOOLEAN :
          call_find_available_resources_by_idn("gui", DesiredValue, is_partial)

SpecDiscovery == InitDiscovery /\ [][NextDiscovery]_vars

(***************************************************************************)
(* force_clear_message_based_resource (src/devices/utils.py).  The channel *)
(* holds pending messages: a "line" ends with the read termination, a      *)
(* "tail" does not.  resource.read() returns a line; on a tail, or on an   *)
(* empty buffer, it takes what is there and raises VisaIOError (timeout)   *)
(* when the read timeout expires.                                          *)
(***************************************************************************)
\* longest list of pending messages
MaxPending == 4
\* the default of the parameter quick_read_timeout, in ms
quick_read_timeout == 10
\* read timeouts a channel may have been given, in ms
Timeouts == {2000, 5000}
Messages == {"line", "tail"}
\* bytes without a termination can only be the last ones in the buffer
PendingLists ==
    {p \in UNION {[1..n -> Messages] : n \in 0..MaxPending} :
        \A i \in 1..(Len(p) - 1) : p[i] = "line"}

\* the two flushes, original_timeout = resource.timeout, and
\* resource.timeout = quick_read_timeout
force_clear_begin ==
    /\ resource.pc = "idle"
    /\ resource' = [resource EXCEPT !.pc = "drain", !.original_timeout = resource.timeout,
                                    !.timeout = quick_read_timeout]
    /\ io' = Ops("gui", "tc", "gui", <<<<"flush", TRUE>>, <<"flush", TRUE>>>>)
    /\ call' = Call("gui", "tc", "force_clear", 0, TRUE, None, 0, None)
    /\ UNCHANGED <<sessVars, heaterVars, clientVars, warmVars, stabVars, pushed, channels, _status_changes>>

\* one resource.read() of either drain loop.  With bytes_in_buffer the loop
\* runs while bytes are pending and a VisaIOError of read() leaves the
\* function; without it the loop runs until read() raises VisaIOError.
force_clear_read ==
    /\ resource.pc = "drain"
    /\ resource.counts_bytes => resource.pending # <<>>
    /\ LET raises == resource.pending = <<>> \/ Head(resource.pending) = "tail"
           rest == IF resource.pending = <<>> THEN <<>> ELSE Tail(resource.pending)
       IN /\ resource' = [resource EXCEPT
                             !.pending = rest,
                             !.reads = @ + 1,
                             !.pc = IF ~raises THEN "drain"
                                    ELSE IF resource.counts_bytes THEN "raised"
                                    ELSE "cleared"]
          /\ io' = Ops("gui", "tc", "gui", <<<<"read", TRUE>>>>)
          /\ call' = Call("gui", "tc", "read", 0, TRUE, None, 0,
                          IF raises THEN Raised("VisaIOError") ELSE Str("line"))
    /\ UNCHANGED <<sessVars, heaterVars, clientVars, warmVars, stabVars, pushed, channels, _status_changes>>

\* the loop has ended: resource.timeout = original_timeout
force_clear_end ==
    /\ \/ resource.pc = "cleared"
       \/ resource.pc = "drain" /\ resource.counts_bytes /\ resource.pending = <<>>
    /\ resource' = [resource EXCEPT !.pc = "done", !.timeout = resource.original_timeout]
    /\ io' = <<>>
    /\ call' = Call("gui", "tc", "force_clear", 0, TRUE, None, 0, None)
    /\ UNCHANGED <<sessVars, heaterVars, clientVars, warmVars, stabVars, pushed, channels, _status_changes>>

InitForceClear ==
    /\ NoReports
    /\ DeviceInit
    /\ NoDiscovery
    /\ WarmupInit
    /\ StabInit
    /\ mout = [c \in OutChannels |-> 0]
    /\ range = [c \in OutChannels |-> OFF]
    /\ \E timeout \in Timeouts, counts_bytes \in BOOLEAN, pending \in PendingLists :
          resource = [pc |-> "idle", timeout |-> timeout, original_timeout |-> 0,
                      before |-> timeout, counts_bytes |-> counts_bytes,
                      pending |-> pending, reads |-> 0, initial |-> Len(pending)]

NextForceClear ==
    \/ force_clear_begin
    \/ force_clear_read
    \/ force_clear_end

SpecForceClear == InitForceClear /\ [][NextForceClear]_vars

(***************************************************************************)
(* safe_query and safe_read with the contents of the receive buffer        *)
(* (src/devices/devices.py).  The buffer of the mediator is                *)
(* resource.pending, oldest chunk first; a chunk is a terminated response  *)
(* ("a", "b", "garbled") or bytes without termination ("tail").            *)
(* mediator.read()                                                         *)
(* takes the oldest chunk, and raises VisaIOError (timeout) on a tail or   *)
(* on an empty buffer.  bytes_in_buffer exists on serial channels only     *)
(* (resource.counts_bytes).                                                *)
(***************************************************************************)
Chunks == {"a", "b"}
\* what the instrument puts on the line for one message, or unasked
ReplyLists ==
    {p \in UNION {[1..n -> Chunks \cup {"tail"}] : n \in 0..2} :
        \A i \in 1..(Len(p) - 1) : p[i] \in Chunks}

\* bytes arriving behind a tail complete it: the tail and the first new
\* chunk become one terminated chunk ("garbled"), or one longer tail
Arrive(pending, reply) ==
    IF pending # <<>> /\ reply # <<>> /\ pending[Len(pending)] = "tail"
       THEN SubSeq(pending, 1, Len(pending) - 1)
            \o <<IF Head(reply) = "tail" THEN "tail" ELSE "garbled">> \o Tail(reply)
       ELSE pending \o reply

Returned(chunks) == [kind |-> "chunks", n |-> 0, s |-> "", chunks |-> chunks]

\* the mutant of read_until_empty: the loop stops one chunk early
RECURSIVE read_until_empty_but_one(_, _)
read_until_empty_but_one(response, stream) ==
    IF Len(stream) <= 1 THEN [result |-> Returned(response), rest |-> stream]
    ELSE IF Head(stream) = "tail" THEN [result |-> Raised("VisaIOError"), rest |-> Tail(stream)]
    ELSE read_until_empty_but_one(Append(response, Head(stream)), Tail(stream))

\* while self.mediator.bytes_in_buffer > 0: response += self.mediator.read()
RECURSIVE read_until_empty(_, _)
read_until_empty(response, stream) ==
    IF stream = <<>> THEN [result |-> Returned(response), rest |-> <<>>]
    ELSE IF Head(stream) = "tail" THEN [result |-> Raised("VisaIOError"), rest |-> Tail(stream)]
    ELSE read_until_empty(Append(response, Head(stream)), Tail(stream))

\* the reads of safe_query after its write, and of safe_read: one
\* mediator.read(), then the loop when until_buffer_empty is set
read_response(stream, counts_bytes, until_buffer_empty) ==
    IF stream = <<>> THEN [result |-> Raised("VisaIOError"), rest |-> <<>>]
    ELSE IF Head(stream) = "tail" THEN [result |-> Raised("VisaIOError"), rest |-> Tail(stream)]
    ELSE IF ~until_buffer_empty THEN [result |-> Returned(<<Head(stream)>>), rest |-> Tail(stream)]
    ELSE IF ~counts_bytes THEN [result |-> Raised("AttributeError"), rest |-> Tail(stream)]
    ELSE read_until_empty(<<Head(stream)>>, Tail(stream))

\* safe_query on the open session: the instrument answers the message with
\* `reply`, which arrives behind what is already in the buffer
query_chunks(t, reply, until_buffer_empty) ==
    /\ LockAvailable(t, "tc")
    /\ is_connected(session["tc"])
    /\ Len(resource.pending) + Len(reply) <= MaxPending
    /\ LET stream == Arrive(resource.pending, reply)
           out == read_response(stream, resource.counts_bytes, until_buffer_empty)
       IN /\ resource' = [resource EXCEPT !.pending = out.rest,
                                          !.reads = Len(stream) - Len(out.rest)]
          /\ io' = Ops(t, "tc", EnterLock(t, "tc"), <<<<"query", session["tc"]>>>>)
          /\ call' = Call(t, "tc", "safe_query", 0, session["tc"],
                          [stream |-> stream, until_buffer_empty |-> until_buffer_empty,
                           check_buffer_before |-> FALSE],
                          0, out.result)
    /\ UNCHANGED <<sessVars, heaterVars, clientVars, warmVars, stabVars, pushed, channels, _status_changes>>

\* safe_read on the open session
read_chunks(t, check_buffer_before, until_buffer_empty) ==
    /\ LockAvailable(t, "tc")
    /\ is_connected(session["tc"])
    /\ LET stream == resource.pending
           skipped == check_buffer_before /\ resource.counts_bytes /\ stream = <<>>
           out == IF check_buffer_before /\ ~resource.counts_bytes
                     THEN [result |-> Raised("AttributeError"), rest |-> stream]
                  ELSE IF skipped THEN [result |-> Returned(<<>>), rest |-> stream]
                  ELSE read_response(stream, resource.counts_bytes, until_buffer_empty)
       IN /\ resource' = [resource EXCEPT !.pending = out.rest,
                                          !.reads = Len(stream) - Len(out.rest)]
          /\ io' = Ops(t, "tc", EnterLock(t, "tc"),
                       IF Len(stream) = Len(out.rest) /\ out.result.kind # "raise"
                          THEN <<>> ELSE <<<<"read", session["tc"]>>>>)
          /\ call' = Call(t, "tc", "safe_read", 0, session["tc"],
                          [stream |-> stream, until_buffer_empty |-> until_buffer_empty,
                           check_buffer_before |-> check_buffer_before],
                          0, out.result)
    /\ UNCHANGED <<sessVars, heaterVars, clientVars, warmVars, stabVars, pushed, channels, _status_changes>>

\* the instrument sends without being asked (an echo, a late line)
instrument_sends(reply) ==
    /\ reply # <<>>
    /\ Len(resource.pending) + Len(reply) <= MaxPending
    /\ resource' = [resource EXCEPT !.pending = Arrive(@, reply)]
    /\ io' = <<>>
    /\ call' = NoCall
    /\ UNCHANGED <<sessVars, heaterVars, clientVars, warmVars, stabVars, pushed, channels, _status_changes>>

InitChunks ==
    /\ NoReports
    /\ session = [d \in Devices |-> d = "tc"]
    /\ lockOwner = [d \in Devices |-> NoThread]
    /\ lockCount = [d \in Devices |-> 0]
    /\ io = <<>>
    /\ call = NoCall
    /\ cpc = [t \in Clients |-> "idle"]
    /\ cval = [t \in Clients |-> None]
    /\ NoDiscovery
    /\ WarmupInit
    /\ StabInit
    /\ mout = [c \in OutChannels |-> 0]
    /\ range = [c \in OutChannels |-> OFF]
    /\ \E counts_bytes \in BOOLEAN :
          resource = [pc |-> "idle", timeout |-> 2000, original_timeout |-> 0,
                      before |-> 2000, counts_bytes |-> counts_bytes,
                      pending |-> <<>>, reads |-> 0, initial |-> 0]

NextChunks ==
    \/ \E t \in Clients, reply \in ReplyLists, until_buffer_empty \in BOOLEAN :
          query_chunks(t, reply, until_buffer_empty)
    \/ \E t \in Clients, check_buffer_before \in BOOLEAN, until_buffer_empty \in BOOLEAN :
          read_chunks(t, check_buffer_before, until_buffer_empty)
    \/ \E reply \in ReplyLists : instrument_sends(reply)

SpecChunks == InitChunks /\ [][NextChunks]_vars

(***************************************************************************)
(* The alert classifier (src/monitor/checks.py): MonitorReport.__init__    *)
(* logs the changed statuses, marks the changes that persist, and          *)
(* notifies.  Two of the components are followed, pressure and helium; a   *)
(* measurement is taken once per interval.                                 *)
(***************************************************************************)
\* STATUS_CHANGE_DISCARD_TIME, in measurement intervals
DiscardAfter == 5
MonitorStatuses ==
    [k \in MonitorKeys |-> IF k = "pressure" THEN {"NORMAL", "HIGH"}
                           ELSE {"NORMAL", "LOW", "REFILLING"}]
\* TYPES: the alert type of a status
AlertType(k, status) ==
    IF status = "NORMAL" \/ (k = "helium" /\ status = "REFILLING") THEN "INFO" ELSE "WARNING"

\* StatusChanges.latest_statuses, for one component
latest_status(changes) == IF changes = <<>> THEN "None" ELSE changes[Len(changes)].status

\* one measurement interval passes
Older(changes) ==
    [i \in 1..Len(changes) |->
        [changes[i] EXCEPT !.age = IF @ > DiscardAfter THEN @ ELSE @ + 1]]

\* append_status_changes, remove_old_values: the oldest changes are popped
\* while they are older than the discard time
RECURSIVE remove_old_values(_)
remove_old_values(changes) ==
    IF changes = <<>> THEN <<>>
    ELSE IF Head(changes).age > DiscardAfter THEN remove_old_values(Tail(changes))
    ELSE changes

\* MonitorReport.log_changed_statuses, for one component
log_changed_statuses(changes, status) ==
    remove_old_values(IF latest_status(changes) # status
                         THEN Append(changes, StatusChange(0, status, FALSE))
                         ELSE changes)

\* MonitorReport.log_change_persistence, for one component: the latest
\* change is of an earlier measurement, shows the status of this one and
\* was not marked so far
newly_persisted(changes, status) ==
    /\ latest_status(changes) = status
    /\ changes[Len(changes)].age # 0
    /\ ~changes[Len(changes)].persisted

log_change_persistence(changes, status) ==
    IF newly_persisted(changes, status)
       THEN [changes EXCEPT ![Len(changes)].persisted = TRUE]
       ELSE changes

\* the statuses of the persisted changes, oldest first
RECURSIVE persisted_statuses(_)
persisted_statuses(changes) ==
    IF changes = <<>> THEN <<>>
    ELSE (IF Head(changes).persisted THEN <<Head(changes).status>> ELSE <<>>)
         \o persisted_statuses(Tail(changes))

\* StatusChanges.at_least_one_new_status_in_list, for one component
new_status(changes) ==
    LET earlier == persisted_statuses(changes)
    IN \A i \in 1..(Len(earlier) - 1) : earlier[i] # latest_status(changes)

Report(v) == [kind |-> "report", n |-> 0, s |-> ""] @@ v

\* get_monitor_report(measurement): a MonitorReport is built
get_monitor_report(statuses) ==
    LET logged == [k \in MonitorKeys |->
                      log_changed_statuses(Older(_status_changes.log[k]), statuses[k])]
        troubling == {k \in MonitorKeys : AlertType(k, statuses[k]) # "INFO"}
        causes == {k \in troubling : newly_persisted(logged[k], statuses[k])}
        marked == [k \in MonitorKeys |-> log_change_persistence(logged[k], statuses[k])]
        bad_changes_persist == causes # {}
        notified == /\ troubling # {}
                    /\ bad_changes_persist
                    /\ \E k \in troubling : new_status(marked[k])
        unchanged == {k \in MonitorKeys : _status_changes.seen[k] = statuses[k]}
    IN /\ _status_changes' =
             [log |-> marked,
              seen |-> statuses,
              alerted |-> [k \in MonitorKeys |->
                              \/ k \in unchanged /\ _status_changes.alerted[k]
                              \/ notified /\ k \in causes]]
       /\ io' = <<>>
       /\ call' = Call("col", "tc", "get_monitor_report", 0, FALSE,
                       Report([statuses |-> statuses, seen |-> _status_changes.seen,
                               alerted |-> _status_changes.alerted]),
                       0,
                       Report([notified |-> notified, troubling |-> troubling,
                               causes |-> causes,
                               new |-> {k \in troubling : new_status(marked[k])}]))
       /\ UNCHANGED <<sessVars, heaterVars, clientVars, warmVars, stabVars, pushed, channels,
                      resource>>

InitMonitor ==
    /\ DeviceInit
    /\ NoDiscovery
    /\ NoForceClear
    /\ NoReports
    /\ WarmupInit
    /\ StabInit
    /\ mout = [c \in OutChannels |-> 0]
    /\ range = [c \in OutChannels |-> OFF]

NextMonitor ==
    \E pressure \in MonitorStatuses["pressure"], helium \in MonitorStatuses["helium"] :
       get_monitor_report([k \in MonitorKeys |-> IF k = "pressure" THEN pressure ELSE helium])

SpecMonitor == InitMonitor /\ [][NextMonitor]_vars

(***************************************************************************)
(* Message framing: MessageBasedDevice.form_message and parse_response     *)
(* with _convert_str (src/devices/utils.py).  Text is a sequence of        *)
(* characters; a converted value carries its Python type, its number as    *)
(* the fraction n/den, or its text.                                        *)
(***************************************************************************)
\* longest response text
MaxResponse == 4
Digits == {"1", "2"}
DigitValue == [c \in Digits |-> IF c = "1" THEN 1 ELSE 2]
\* the characters of a response
Chars == Digits \cup {"-", ".", "F", ",", " "}
Responses == UNION {[1..n -> Chars] : n \in 0..MaxResponse}
PrimaryCommands == {<<"S", "E", "T", "P">>, <<"C", "L", "R">>, <<>>}
\* the argument `channel`: None, a string, or an int (formatted by the f-string)
ChannelArgs ==
    {[given |-> FALSE, token |-> <<>>]}
    \cup {[given |-> TRUE, token |-> x] : x \in {<<"B">>, <<"1">>, <<>>}}

IntValue(n) == [type |-> "int", n |-> n, den |-> 1, s |-> <<>>]
FloatValue(n, den) == [type |-> "float", n |-> n, den |-> den, s |-> <<>>]
TextValue(s) == [type |-> "str", n |-> 0, den |-> 1, s |-> s]

\* the mutant of form_message: the channel goes before the question mark
form_message_channel_first(primary_command, is_query, channel) ==
    primary_command
    \o (IF channel.given THEN <<" ">> \o channel.token ELSE <<>>)
    \o (IF is_query THEN <<"?">> ELSE <<>>)

\* MessageBasedDevice.form_message
form_message(primary_command, is_query, channel) ==
    primary_command
    \o (IF is_query THEN <<"?">> ELSE <<>>)
    \o (IF channel.given THEN <<" ">> \o channel.token ELSE <<>>)

\* str.strip()
RECURSIVE strip(_)
strip(text) ==
    IF text # <<>> /\ Head(text) = " " THEN strip(Tail(text))
    ELSE IF text # <<>> /\ text[Len(text)] = " " THEN strip(SubSeq(text, 1, Len(text) - 1))
    ELSE text

\* str.split(sep): a text without the separator is its only piece
RECURSIVE split(_, _)
split(text, sep) ==
    IF \A i \in 1..Len(text) : text[i] # sep THEN <<text>>
    ELSE LET k == CHOOSE i \in 1..Len(text) :
                     text[i] = sep /\ \A j \in 1..(i - 1) : text[j] # sep
         IN <<SubSeq(text, 1, k - 1)>> \o split(SubSeq(text, k + 1, Len(text)), sep)

\* str.isdigit()
isdigit(string) == string # <<>> /\ \A i \in 1..Len(string) : string[i] \in Digits

\* int(string) for a string of digits
RECURSIVE int(_)
int(string) ==
    IF string = <<>> THEN 0
    ELSE 10 * int(SubSeq(string, 1, Len(string) - 1)) + DigitValue[string[Len(string)]]

\* a text without its sign, and without its decimal point
Unsigned(string) == IF string # <<>> /\ Head(string) = "-" THEN Tail(string) ELSE string
RECURSIVE WithoutPoint(_)
WithoutPoint(string) ==
    IF string = <<>> THEN <<>>
    ELSE IF Head(string) = "." THEN WithoutPoint(Tail(string))
    ELSE <<Head(string)>> \o WithoutPoint(Tail(string))
RECURSIVE Power10(_)
Power10(k) == IF k = 0 THEN 1 ELSE 10 * Power10(k - 1)

\* _str_is_float on characters: float(string) does not raise for an optional
\* sign, digits and at most one decimal point, with at least one digit
float_parses(string) ==
    /\ \A i \in 1..Len(Unsigned(string)) : Unsigned(string)[i] \in Digits \cup {"."}
    /\ Len(Unsigned(string)) - Len(WithoutPoint(Unsigned(string))) <= 1
    /\ WithoutPoint(Unsigned(string)) # <<>>

\* float(string) for such a text
float(string) ==
    LET body == Unsigned(string)
        point == IF \E i \in 1..Len(body) : body[i] = "."
                    THEN CHOOSE i \in 1..Len(body) : body[i] = "." ELSE Len(body)
    IN FloatValue((IF body = string THEN 1 ELSE -1) * int(WithoutPoint(body)),
                  Power10(Len(body) - point))

\* _convert_str
_convert_str(string) ==
    IF isdigit(string) THEN IntValue(int(string))
    ELSE IF float_parses(string) THEN float(string)
    ELSE TextValue(string)

\* MessageBasedDevice.parse_response
parse_response(response) ==
    LET pieces == split(strip(response), ",")
        response_list == [i \in 1..Len(pieces) |-> _convert_str(strip(pieces[i]))]
    IN IF Len(response_list) > 1 THEN response_list ELSE response_list[1]

\* a caller forms a message (the functions keep no state: a behaviour is
\* one call on one input)
call_form_message(t, primary_command, is_query, channel) ==
    /\ Idle(t)
    /\ call = NoCall
    /\ io' = <<>>
    /\ call' = Call(t, "tc", "form_message", 0, FALSE,
                    [primary_command |-> primary_command, is_query |-> is_query,
                     channel |-> channel],
                    0, form_message(primary_command, is_query, channel))
    /\ UNCHANGED <<sessVars, heaterVars, clientVars, warmVars, stabVars, pureVars>>

\* a caller parses a response
call_parse_response(t, response) ==
    /\ Idle(t)
    /\ call = NoCall
    /\ io' = <<>>
    /\ call' = Call(t, "tc", "parse_response", 0, FALSE, response, 0,
                    parse_response(response))
    /\ UNCHANGED <<sessVars, heaterVars, clientVars, warmVars, stabVars, pureVars>>

InitFraming ==
    /\ DeviceInit
    /\ NoDiscovery
    /\ NoForceClear
    /\ NoReports
    /\ WarmupInit
    /\ StabInit
    /\ mout = [c \in OutChannels |-> 0]
    /\ range = [c \in OutChannels |-> OFF]

NextFraming ==
    \/ \E primary_command \in PrimaryCommands, is_query \in BOOLEAN, channel \in ChannelArgs :
          call_form_message("gui", primary_command, is_query, channel)
    \/ \E response \in Responses : call_parse_response("gui", response)

SpecFraming == InitFraming /\ [][NextFraming]_vars

(***************************************************************************)
(* SpecStabTick: the steady-state ticks of one stabilization loop by       *)
(* themselves, on an open session, from every cold-head manual output in   *)
(* StabTickOutputs and every first pressure reading.                       *)
(***************************************************************************)
\* manual outputs the cold-head channel holds when the ticks begin
StabTickOutputs == {0, 3, 40, 80, 100}

InitStabTick ==
    /\ io = <<>>
    /\ call = NoCall
    /\ cpc = [t \in Clients |-> "idle"]
    /\ cval = [t \in Clients |-> None]
    /\ NoDiscovery
    /\ NoForceClear
    /\ NoReports
    /\ WarmupInit
    /\ session = [d \in Devices |-> d = "tc"]
    /\ lockOwner = [d \in Devices |-> NoThread]
    /\ lockCount = [d \in Devices |-> 0]
    /\ range = [c \in OutChannels |-> IF c = COLD_HEAD_OUT_CHANNEL THEN MEDIUM ELSE OFF]
    /\ stop_stabilization_event = SOrder[1]
    /\ sevSet = [s \in SThreads |-> FALSE]
    /\ stabilization_is_on = TRUE
    /\ spc = [s \in SThreads |-> IF s = SOrder[1] THEN "loop" ELSE "none"]
    /\ \E out \in StabTickOutputs, p \in Pressures :
          /\ mout = [c \in OutChannels |-> IF c = COLD_HEAD_OUT_CHANNEL THEN out ELSE 0]
          /\ sloc = [s \in SThreads |->
                       IF s = SOrder[1]
                          THEN [NoLocals EXCEPT !.n = BaselineReads, !.sum = Num(10 * out),
                                                !.mean = Num(out), !.range = Str("Medium"),
                                                !.data = <<p>>]
                          ELSE NoLocals]

NextStabTick ==
    \/ \E s \in SThreads, p \in Pressures : stab_tick_read(s, p)
    \/ \E s \in SThreads : stab_tick_read_raises(s)
    \/ \E s \in SThreads : stab_get_output(s)
    \/ \E s \in SThreads : stab_set_output(s)

SpecStabTick == InitStabTick /\ [][NextStabTick]_vars

(***************************************************************************)
(* SpecSwitch: the two switches of stabilization_loop call by call.  The   *)
(* thread enters `with temperature_controller._lock:`, calls connect, the  *)
(* getter (startup only), the three setters and disconnect, and leaves the *)
(* block, while the collector, the GUI thread and a warm-up loop call the  *)
(* same controller.                                                        *)
(***************************************************************************)
\* positions of a stabilization thread inside a switch, in program order
StartupSwitch == <<"up_connect", "up_read", "up_off", "up_mout", "up_back",
                   "up_disconnect", "up_unlock">>
ShutdownSwitch == <<"down_connect", "down_off", "down_mout", "down_back",
                    "down_disconnect", "down_unlock">>
\* the position after pos; an exception inside the block leaves it at once
AfterPosition(pos) ==
    IF \E i \in 1..(Len(StartupSwitch) - 1) : StartupSwitch[i] = pos
       THEN StartupSwitch[1 + CHOOSE i \in 1..(Len(StartupSwitch) - 1) : StartupSwitch[i] = pos]
       ELSE ShutdownSwitch[1 + CHOOSE i \in 1..(Len(ShutdownSwitch) - 1) : ShutdownSwitch[i] = pos]

\* `with self.temperature_controller._lock:` is entered
switch_enter(s) ==
    /\ spc[s] = "switch" \/ (spc[s] = "loop" /\ sevSet[s])
    /\ lock_acquire(s, "tc")
    /\ spc' = [spc EXCEPT ![s] = IF spc[s] = "switch" THEN StartupSwitch[1]
                                                       ELSE ShutdownSwitch[1]]
    /\ UNCHANGED <<clientVars, warmVars, pureVars, stop_stabilization_event, sevSet,
                   stabilization_is_on, sloc>>

\* self.temperature_controller.connect()
switch_connect(s) ==
    /\ spc[s] \in {"up_connect", "down_connect"}
    /\ connect(s, "tc")
    /\ spc' = [spc EXCEPT ![s] = AfterPosition(spc[s])]
    /\ UNCHANGED <<clientVars, warmVars, pureVars, stop_stabilization_event, sevSet,
                   stabilization_is_on, sloc>>

\* heater_range = self.temperature_controller.get_cold_head_heater_range()
switch_read(s) ==
    /\ spc[s] = "up_read"
    /\ tc_get(s, "heater_range", COLD_HEAD_OUT_CHANNEL, NumStr(range[COLD_HEAD_OUT_CHANNEL]))
    /\ LET got == getter_result("heater_range",
                      safe_query_result(session["tc"], NumStr(range[COLD_HEAD_OUT_CHANNEL])))
       IN /\ sloc' = [sloc EXCEPT ![s].range = got]
          /\ spc' = [spc EXCEPT ![s] = IF got.kind = "raise" THEN "up_raise"
                                                              ELSE AfterPosition(spc[s])]
    /\ UNCHANGED <<clientVars, warmVars, pureVars, stop_stabilization_event, sevSet,
                   stabilization_is_on>>

\* set_cold_head_heater_range('off'), set_cold_head_manual_output(
\* mean_heater_percentage), set_cold_head_heater_range(heater_range)
switch_write(s) ==
    /\ spc[s] \in {"up_off", "up_mout", "up_back", "down_off", "down_mout", "down_back"}
    /\ LET value == IF spc[s] \in {"up_off", "down_off"} THEN Str("off")
                    ELSE IF spc[s] \in {"up_mout", "down_mout"} THEN sloc[s].mean
                    ELSE sloc[s].range
           known == value.kind = "str" /\ Upper(value.s) \in DOMAIN HeaterRangeByName
       IN IF spc[s] \in {"up_mout", "down_mout"}
             THEN /\ set_manual_output(s, COLD_HEAD_OUT_CHANNEL, value)
                  /\ spc' = [spc EXCEPT ![s] = AfterPosition(spc[s])]
          ELSE IF known
             THEN /\ set_heater_range(s, COLD_HEAD_OUT_CHANNEL, value)
                  /\ spc' = [spc EXCEPT ![s] = AfterPosition(spc[s])]
          ELSE \* HeaterRangeValues[heater_range.upper()] raises
               /\ io' = <<>>
               /\ call' = Call(s, "tc", "RANGE", COLD_HEAD_OUT_CHANNEL, session["tc"], value,
                               range[COLD_HEAD_OUT_CHANNEL], Raised("KeyError"))
               /\ spc' = [spc EXCEPT ![s] = IF spc[s] = "up_back" THEN "up_raise"
                                                                   ELSE "down_raise"]
               /\ UNCHANGED <<sessVars, heaterVars>>
    /\ UNCHANGED <<clientVars, warmVars, pureVars, stop_stabilization_event, sevSet,
                   stabilization_is_on, sloc>>

\* self.temperature_controller.disconnect()
switch_disconnect(s) ==
    /\ spc[s] \in {"up_disconnect", "down_disconnect"}
    /\ disconnect(s, "tc")
    /\ spc' = [spc EXCEPT ![s] = AfterPosition(spc[s])]
    /\ UNCHANGED <<clientVars, warmVars, pureVars, stop_stabilization_event, sevSet,
                   stabilization_is_on, sloc>>

\* the `with` block is left: at its end, or by an exception that ends the thread
switch_leave(s) ==
    /\ spc[s] \in {"up_unlock", "down_unlock", "up_raise", "down_raise"}
    /\ lock_release(s, "tc")
    /\ spc' = [spc EXCEPT ![s] = IF spc[s] = "up_unlock" THEN "pressure"
                                 ELSE IF spc[s] = "down_unlock" THEN "clear"
                                 ELSE "done"]
    /\ sloc' = [sloc EXCEPT ![s] = IF spc[s] = "down_unlock" THEN NoLocals ELSE @]
    /\ UNCHANGED <<clientVars, warmVars, pureVars, stop_stabilization_event, sevSet,
                   stabilization_is_on>>

\* the pressure the gauge reports while the switches are looked at
SwitchPressure == 3

\* the stabilization loop has taken its baseline; the cold-head heater is at
\* MEDIUM or LOW
InitSwitch ==
    /\ DeviceInit
    /\ NoDiscovery
    /\ NoForceClear
    /\ NoReports
    /\ stop_warmup_event = WOrder[1]
    /\ evSet = [w \in WThreads |-> FALSE]
    /\ wpc = [w \in WThreads |-> IF w = WOrder[1] THEN "sleep" ELSE "none"]
    /\ window = [w \in WThreads |-> IF w = WOrder[1] THEN <<Num(2400)>> ELSE <<>>]
    /\ hr = [w \in WThreads |-> OFF]
    /\ wq = [w \in WThreads |-> <<>>]
    /\ stopRun = 0
    /\ pushed = NothingPushed
    /\ stop_stabilization_event = SOrder[1]
    /\ sevSet = [s \in SThreads |-> FALSE]
    /\ stabilization_is_on = TRUE
    /\ spc = [s \in SThreads |-> IF s = SOrder[1] THEN "switch" ELSE "none"]
    /\ sloc = [s \in SThreads |->
                 IF s = SOrder[1]
                    THEN [NoLocals EXCEPT !.n = BaselineReads, !.sum = Num(10 * 30),
                                          !.mean = mean_heater_percentage(Num(10 * 30))]
                    ELSE NoLocals]
    /\ mout = [c \in OutChannels |-> IF c = COLD_HEAD_OUT_CHANNEL THEN 40 ELSE 0]
    /\ \E r \in {LOW, MEDIUM} :
          range = [c \in OutChannels |-> IF c = COLD_HEAD_OUT_CHANNEL THEN r ELSE OFF]

NextSwitch ==
    \/ \E s \in SThreads : switch_enter(s)
    \/ \E s \in SThreads : switch_connect(s)
    \/ \E s \in SThreads : switch_read(s)
    \/ \E s \in SThreads : switch_write(s)
    \/ \E s \in SThreads : switch_disconnect(s)
    \/ \E s \in SThreads : switch_leave(s)
    \/ \E s \in SThreads : stab_first_pressure(s, SwitchPressure)
    \/ \E s \in SThreads : PressureReadingsLeft /\ stab_tick_read(s, SwitchPressure)
    \/ \E s \in SThreads : stab_get_output(s)
    \/ \E s \in SThreads : stab_set_output(s)
    \/ \E s \in SThreads : stab_clear(s)
    \/ stop_pressure_stabilization("gui")
    \/ \E w \in WThreads : ReadingsLeft /\ warmup_read(w, NumStr(2400))
    \/ \E w \in WThreads : warmup_get_range(w)
    \/ \E w \in WThreads : warmup_get_output(w)
    \/ \E w \in WThreads : warmup_write(w)
    \/ \E t \in Clients : connect(t, "tc") /\ Other(t)
    \/ \E t \in Clients : disconnect(t, "tc") /\ Other(t)
    \/ lock_acquire("col", "tc") /\ Other("col")
    \/ lock_release("col", "tc") /\ Other("col")
    \/ \E t \in Clients :
          /\ tc_get(t, "heater_range", COLD_HEAD_OUT_CHANNEL,
                    NumStr(range[COLD_HEAD_OUT_CHANNEL]))
          /\ Other(t)
    \/ \E t \in Clients :
          set_heater_range(t, COLD_HEAD_OUT_CHANNEL, Str("Medium")) /\ Other(t)

SpecSwitch == InitSwitch /\ [][NextSwitch]_vars

(***************************************************************************)
(* SpecShutdown: one stabilization loop from its first baseline reading to *)
(* its end, the switches call by call, while the GUI thread requests the   *)
(* stop at any moment, opens and closes the session and sets the cold-head *)
(* heater range.                                                           *)
(***************************************************************************)
InitShutdown ==
    /\ DeviceInit
    /\ NoDiscovery
    /\ NoForceClear
    /\ NoReports
    /\ WarmupInit
    /\ stop_stabilization_event = SOrder[1]
    /\ sevSet = [s \in SThreads |-> FALSE]
    /\ stabilization_is_on = TRUE
    /\ spc = [s \in SThreads |-> IF s = SOrder[1] THEN "baseline" ELSE "none"]
    /\ sloc = [s \in SThreads |-> NoLocals]
    /\ mout = [c \in OutChannels |-> IF c = COLD_HEAD_OUT_CHANNEL THEN 40 ELSE 0]
    /\ \E r \in {LOW, MEDIUM} :
          range = [c \in OutChannels |-> IF c = COLD_HEAD_OUT_CHANNEL THEN r ELSE OFF]

NextShutdown ==
    \/ \E s \in SThreads, reply \in HeaterPercentages : stab_baseline_read(s, reply)
    \/ \E s \in SThreads : switch_enter(s)
    \/ \E s \in SThreads : switch_connect(s)
    \/ \E s \in SThreads : switch_read(s)
    \/ \E s \in SThreads : switch_write(s)
    \/ \E s \in SThreads : switch_disconnect(s)
    \/ \E s \in SThreads : switch_leave(s)
    \/ \E s \in SThreads, p \in Pressures : stab_first_pressure(s, p)
    \/ \E s \in SThreads, p \in Pressures : PressureReadingsLeft /\ stab_tick_read(s, p)
    \/ \E s \in SThreads : stab_tick_read_raises(s)
    \/ \E s \in SThreads : stab_get_output(s)
    \/ \E s \in SThreads : stab_set_output(s)
    \/ \E s \in SThreads : stab_clear(s)
    \/ stop_pressure_stabilization("gui")
    \/ connect("gui", "tc") /\ Other("gui")
    \/ disconnect("gui", "tc") /\ Other("gui")
    \/ set_heater_range("gui", COLD_HEAD_OUT_CHANNEL, Str("Medium")) /\ Other("gui")

SpecShutdown == InitShutdown /\ [][NextShutdown]_vars

(***************************************************************************)
(* SpecTick: the ticks of one warm-up loop by themselves, on an open       *)
(* session, from every heater state in TickHeaterStates and every first    *)
(* reading, for windows of up to MaxTickWindow readings and for the        *)
(* readings of ScenarioReadings.                                           *)
(***************************************************************************)
\* readings of a slow warm-up far below the target, in tenths of a kelvin
ScenarioReadings == <<2400, 2410, 2420, 2422, 2421>>
\* readings falling by 1 K over three intervals: a rate of exactly 1 K/min
CoolingReadings == <<2420, 2410, 2410, 2410>>
\* other readings: far below the target, inside its margin, above it
TickTemps == {2400, 2420, 2540, 2580}
\* longest window made of TickTemps
MaxTickWindow == 3
\* range and manual output of the sample-space heater when the ticks begin
TickHeaterStates ==
    {<<OFF, 0>>, <<OFF, 100>>, <<LOW, 10>>, <<LOW, 78>>, <<LOW, 80>>,
     <<MEDIUM, 12>>, <<MEDIUM, 80>>, <<HIGH, 5>>, <<HIGH, 50>>}

\* the numbers in a window of readings
Readings(data) == [i \in 1..Len(data) |-> data[i].n]

\* what get_sample_space_temperature() may answer after the readings in data
TickReplies(data) ==
    {NumStr(x) : x \in IF Len(data) < MaxTickWindow THEN TickTemps ELSE {}}
    \cup (IF /\ Len(data) < Len(ScenarioReadings)
              /\ Readings(data) = SubSeq(ScenarioReadings, 1, Len(data))
              THEN {NumStr(ScenarioReadings[Len(data) + 1])} ELSE {})
    \cup (IF /\ Len(data) < Len(CoolingReadings)
              /\ Readings(data) = SubSeq(CoolingReadings, 1, Len(data))
              THEN {NumStr(CoolingReadings[Len(data) + 1])} ELSE {})

InitTick ==
    /\ io = <<>>
    /\ call = NoCall
    /\ cpc = [t \in Clients |-> "idle"]
    /\ cval = [t \in Clients |-> None]
    /\ NoDiscovery
    /\ NoForceClear
    /\ NoReports
    /\ StabInit
    /\ session = [d \in Devices |-> d = "tc"]
    /\ lockOwner = [d \in Devices |-> NoThread]
    /\ lockCount = [d \in Devices |-> 0]
    /\ stop_warmup_event = WOrder[1]
    /\ evSet = [w \in WThreads |-> FALSE]
    /\ wpc = [w \in WThreads |-> IF w = WOrder[1] THEN "sleep" ELSE "none"]
    /\ hr = [w \in WThreads |-> OFF]
    /\ wq = [w \in WThreads |-> <<>>]
    /\ stopRun = 0
    /\ pushed = NothingPushed
    /\ \E x \in TickTemps :
          window = [w \in WThreads |-> IF w = WOrder[1] THEN <<Num(x)>> ELSE <<>>]
    /\ \E h \in TickHeaterStates :
          /\ mout = [c \in OutChannels |-> IF c = SAMPLE_SPACE_OUT_CHANNEL THEN h[2] ELSE 0]
          /\ range = [c \in OutChannels |-> IF c = SAMPLE_SPACE_OUT_CHANNEL THEN h[1] ELSE OFF]

NextTick ==
    \/ \E w \in WThreads : \E reply \in TickReplies(window[w]) : warmup_read(w, reply)
    \/ \E w \in WThreads : warmup_get_range(w)
    \/ \E w \in WThreads : warmup_get_output(w)
    \/ \E w \in WThreads : warmup_write(w)
    \/ \E w \in WThreads : warmup_tick_raises(w)

SpecTick == InitTick /\ [][NextTick]_vars

(***************************************************************************)
(* SpecOperations: the multi-step operations of the program's call sites,  *)
(* call by call.  The GUI thread runs _on_reset_ch_heater and the wrapped  *)
(* setters of its meters; the collector thread runs                        *)
(* temperature_controller_acquisition and single_acquisition.  cpc[t] is   *)
(* the position of thread t inside its operation, cval[t] the number of    *)
(* getters the current locked section has called.                          *)
(***************************************************************************)
\* the getters of temperature_controller_acquisition, in call order
AcquisitionGetters ==
    <<<<"temperature", COLD_HEAD_OUT_CHANNEL>>, <<"set_point", COLD_HEAD_OUT_CHANNEL>>,
      <<"heater_range", COLD_HEAD_OUT_CHANNEL>>, <<"heater_percentage", COLD_HEAD_OUT_CHANNEL>>,
      <<"manual_output", COLD_HEAD_OUT_CHANNEL>>,
      <<"temperature", SAMPLE_SPACE_OUT_CHANNEL>>, <<"set_point", SAMPLE_SPACE_OUT_CHANNEL>>,
      <<"heater_range", SAMPLE_SPACE_OUT_CHANNEL>>,
      <<"heater_percentage", SAMPLE_SPACE_OUT_CHANNEL>>,
      <<"manual_output", SAMPLE_SPACE_OUT_CHANNEL>>>>

\* the getters of the temperature-controller section of single_acquisition
SingleAcquisitionGetters ==
    <<<<"temperature", SAMPLE_SPACE_OUT_CHANNEL>>, <<"temperature", COLD_HEAD_OUT_CHANNEL>>,
      <<"heater_percentage", COLD_HEAD_OUT_CHANNEL>>, <<"set_point", COLD_HEAD_OUT_CHANNEL>>>>

\* the two locked sections on the temperature controller: the positions of
\* the thread before, inside and after the section, and the getters called
Sections == {"tca", "sa"}
SectionPc == [k \in Sections |->
    IF k = "tca"
       THEN [entry |-> "idle", connect |-> "tca_connect", get |-> "tca_get",
             disconnect |-> "tca_disconnect", leave |-> "tca_leave", exit |-> "idle",
             getters |-> AcquisitionGetters]
       ELSE [entry |-> "sa_tc", connect |-> "sa_tc_connect", get |-> "sa_tc_get",
             disconnect |-> "sa_tc_disconnect", leave |-> "sa_tc_leave", exit |-> "sa_cls",
             getters |-> SingleAcquisitionGetters]]

\* what the instrument answers to the getters of a collector; a heater
\* range may also come back garbled
AcquisitionReplies(g, ch) ==
    IF g = "heater_range" THEN Replies("RANGE", ch) \cup {Str("garbage")}
    ELSE IF g = "temperature" THEN {NumStr(2400)}
    ELSE Replies(GetterCommand[g], ch)

OperationFrame == UNCHANGED <<warmVars, stabVars, pureVars>>

\* `with temperature_controller._lock:`
section_enter(t, k) ==
    /\ cpc[t] = SectionPc[k].entry
    /\ lock_acquire(t, "tc")
    /\ cpc' = [cpc EXCEPT ![t] = SectionPc[k].connect]
    /\ UNCHANGED cval
    /\ OperationFrame

\* temperature_controller.connect()
section_connect(t, k) ==
    /\ cpc[t] = SectionPc[k].connect
    /\ connect(t, "tc")
    /\ cpc' = [cpc EXCEPT ![t] = SectionPc[k].get]
    /\ cval' = [cval EXCEPT ![t] = Num(0)]
    /\ OperationFrame

\* the next getter of the section.  When it raises (a heater range that is
\* no member of HeaterRangeValues), the exception leaves the `with` block,
\* which releases the lock, and the operation; disconnect() is not reached.
section_get(t, k, reply) ==
    /\ cpc[t] = SectionPc[k].get
    /\ lockOwner["tc"] = t
    /\ LET getters == SectionPc[k].getters
           i == cval[t].n + 1
           g == getters[i][1]
           ch == getters[i][2]
           got == getter_result(g, safe_query_result(session["tc"], reply))
       IN /\ reply \in AcquisitionReplies(g, ch)
          /\ io' = Ops(t, "tc", EnterLock(t, "tc"),
                       Same(safe_query_ops(session["tc"], 0, FALSE), session["tc"]))
          /\ call' = Call(t, "tc", g, ch, session["tc"], None, range[ch], got)
          /\ IF got.kind = "raise"
                THEN /\ cpc' = [cpc EXCEPT ![t] = "idle"]
                     /\ cval' = [cval EXCEPT ![t] = got]
                     /\ lockCount' = [lockCount EXCEPT !["tc"] = @ - 1]
                     /\ lockOwner' = [lockOwner EXCEPT !["tc"] =
                                         IF lockCount["tc"] = 1 THEN NoThread ELSE t]
                ELSE /\ cpc' = [cpc EXCEPT ![t] =
                                   IF i = Len(getters) THEN SectionPc[k].disconnect
                                   ELSE SectionPc[k].get]
                     /\ cval' = [cval EXCEPT ![t] = Num(i)]
                     /\ UNCHANGED <<lockOwner, lockCount>>
    /\ UNCHANGED <<session, mout, range>>
    /\ OperationFrame

\* the next getter when the instrument does not answer: mediator.query
\* raises VisaIOError (timeout) inside safe_query; the `with` block
\* releases the lock, disconnect() is not reached
section_get_times_out(t, k) ==
    /\ cpc[t] = SectionPc[k].get
    /\ lockOwner["tc"] = t
    /\ is_connected(session["tc"])
    /\ LET getters == SectionPc[k].getters
           i == cval[t].n + 1
       IN /\ io' = Ops(t, "tc", EnterLock(t, "tc"), <<<<"query", session["tc"]>>>>)
          /\ call' = Call(t, "tc", getters[i][1], getters[i][2], session["tc"], None,
                          range[getters[i][2]], Raised("VisaIOError"))
    /\ cpc' = [cpc EXCEPT ![t] = "idle"]
    /\ cval' = [cval EXCEPT ![t] = Raised("VisaIOError")]
    /\ lockCount' = [lockCount EXCEPT !["tc"] = @ - 1]
    /\ lockOwner' = [lockOwner EXCEPT !["tc"] = IF lockCount["tc"] = 1 THEN NoThread ELSE t]
    /\ UNCHANGED <<session, mout, range>>
    /\ OperationFrame

\* temperature_controller.disconnect()
section_disconnect(t, k) ==
    /\ cpc[t] = SectionPc[k].disconnect
    /\ disconnect(t, "tc")
    /\ cpc' = [cpc EXCEPT ![t] = SectionPc[k].leave]
    /\ UNCHANGED cval
    /\ OperationFrame

\* the end of the `with` block
section_leave(t, k) ==
    /\ cpc[t] = SectionPc[k].leave
    /\ lock_release(t, "tc")
    /\ cpc' = [cpc EXCEPT ![t] = SectionPc[k].exit]
    /\ UNCHANGED cval
    /\ OperationFrame

\* single_acquisition: arduino_for_pressure_and_refill.connect()
sa_arduino_connect(t) ==
    /\ cpc[t] = "idle"
    /\ connect(t, "ard")
    /\ cpc' = [cpc EXCEPT ![t] = "sa_acquire"]
    /\ UNCHANGED cval
    /\ OperationFrame

\* single_acquisition: arduino_for_pressure_and_refill._lock.acquire()
sa_arduino_acquire(t) ==
    /\ cpc[t] = "sa_acquire"
    /\ lock_acquire(t, "ard")
    /\ cpc' = [cpc EXCEPT ![t] = "sa_pressure"]
    /\ UNCHANGED cval
    /\ OperationFrame

\* single_acquisition: read_pressure(), then read_refill_status(): one
\* safe_query each, NaN when the response is no number
sa_arduino_read(t, reply) ==
    /\ cpc[t] \in {"sa_pressure", "sa_refill"}
    /\ LockAvailable(t, "ard")
    /\ io' = Ops(t, "ard", EnterLock(t, "ard"),
                 Same(safe_query_ops(session["ard"], 0, FALSE), session["ard"]))
    /\ call' = Call(t, "ard", IF cpc[t] = "sa_pressure" THEN "read_pressure"
                              ELSE "read_refill_status",
                    0, session["ard"], None, 0,
                    quick_query(safe_query_result(session["ard"], reply)))
    /\ cpc' = [cpc EXCEPT ![t] = IF cpc[t] = "sa_pressure" THEN "sa_refill"
                                 ELSE "sa_ard_disconnect"]
    /\ UNCHANGED <<sessVars, heaterVars, cval>>
    /\ OperationFrame

\* read_pressure() or read_refill_status() when the Arduino does not
\* answer: mediator.query raises VisaIOError inside safe_query and the
\* exception leaves single_acquisition; disconnect() and _lock.release()
\* are not reached
sa_arduino_read_times_out(t) ==
    /\ cpc[t] \in {"sa_pressure", "sa_refill"}
    /\ LockAvailable(t, "ard")
    /\ is_connected(session["ard"])
    /\ io' = Ops(t, "ard", EnterLock(t, "ard"), <<<<"query", session["ard"]>>>>)
    /\ call' = Call(t, "ard", IF cpc[t] = "sa_pressure" THEN "read_pressure"
                              ELSE "read_refill_status",
                    0, session["ard"], None, 0, Raised("VisaIOError"))
    /\ cpc' = [cpc EXCEPT ![t] = "idle"]
    /\ cval' = [cval EXCEPT ![t] = Raised("VisaIOError")]
    /\ UNCHANGED <<sessVars, heaterVars>>
    /\ OperationFrame

\* single_acquisition: arduino_for_pressure_and_refill.disconnect()
sa_arduino_disconnect(t) ==
    /\ cpc[t] = "sa_ard_disconnect"
    /\ disconnect(t, "ard")
    /\ cpc' = [cpc EXCEPT ![t] = "sa_release"]
    /\ UNCHANGED cval
    /\ OperationFrame

\* single_acquisition: arduino_for_pressure_and_refill._lock.release()
sa_arduino_release(t) ==
    /\ cpc[t] = "sa_release"
    /\ lock_release(t, "ard")
    /\ cpc' = [cpc EXCEPT ![t] = "sa_tc"]
    /\ UNCHANGED cval
    /\ OperationFrame

\* single_acquisition, cryogen level sensor: `with cryogen_level_sensor._lock:`
\* and connect(); then read_helium_level(), read_nitrogen_level() with a
\* level that parses (clear(force=True), one query, clear(force=True));
\* then disconnect() and the end of the block
sa_cls_step(t) ==
    /\ cpc[t] \in {"sa_cls", "sa_cls_connect", "sa_helium", "sa_nitrogen",
                   "sa_cls_disconnect", "sa_cls_leave"}
    /\ CASE cpc[t] = "sa_cls" ->
                lock_acquire(t, "cls") /\ cpc' = [cpc EXCEPT ![t] = "sa_cls_connect"]
         [] cpc[t] = "sa_cls_connect" ->
                connect(t, "cls") /\ cpc' = [cpc EXCEPT ![t] = "sa_helium"]
         [] cpc[t] \in {"sa_helium", "sa_nitrogen"} ->
                /\ LockAvailable(t, "cls")
                /\ io' = Ops(t, "cls", EnterLock(t, "cls"),
                             Same(clearOps(session["cls"], TRUE)
                                  \o safe_query_ops(session["cls"], 0, TRUE)
                                  \o clearOps(session["cls"], TRUE), session["cls"]))
                /\ call' = Call(t, "cls", "read_level", 0, session["cls"], None, 0,
                                get_processed_response(
                                    safe_query_result(session["cls"], EchoLevel(123))))
                /\ cpc' = [cpc EXCEPT ![t] = IF cpc[t] = "sa_helium" THEN "sa_nitrogen"
                                             ELSE "sa_cls_disconnect"]
                /\ UNCHANGED <<sessVars, heaterVars>>
         [] cpc[t] = "sa_cls_disconnect" ->
                disconnect(t, "cls") /\ cpc' = [cpc EXCEPT ![t] = "sa_cls_leave"]
         [] OTHER ->
                lock_release(t, "cls") /\ cpc' = [cpc EXCEPT ![t] = "idle"]
    /\ UNCHANGED cval
    /\ OperationFrame

\* _on_reset_ch_heater: self._device.connect()
reset_connect(t) ==
    /\ cpc[t] = "idle"
    /\ connect(t, "tc")
    /\ cpc' = [cpc EXCEPT ![t] = "rst_off"]
    /\ UNCHANGED cval
    /\ OperationFrame

\* reset_cold_head_heater_output(): set_cold_head_heater_range('off'),
\* set_cold_head_manual_output(0.), set_cold_head_heater_range('medium');
\* set_point is None
reset_cold_head_heater_output(t) ==
    /\ cpc[t] \in {"rst_off", "rst_output", "rst_medium"}
    /\ CASE cpc[t] = "rst_off" ->
                /\ set_heater_range(t, COLD_HEAD_OUT_CHANNEL, Str("off"))
                /\ cpc' = [cpc EXCEPT ![t] = "rst_output"]
         [] cpc[t] = "rst_output" ->
                /\ set_manual_output(t, COLD_HEAD_OUT_CHANNEL, Num(0))
                /\ cpc' = [cpc EXCEPT ![t] = "rst_medium"]
         [] OTHER ->
                /\ set_heater_range(t, COLD_HEAD_OUT_CHANNEL, Str("medium"))
                /\ cpc' = [cpc EXCEPT ![t] = "rst_disconnect"]
    /\ UNCHANGED cval
    /\ OperationFrame

\* _on_reset_ch_heater: self._device.disconnect()
reset_disconnect(t) ==
    /\ cpc[t] = "rst_disconnect"
    /\ disconnect(t, "tc")
    /\ cpc' = [cpc EXCEPT ![t] = "idle"]
    /\ UNCHANGED cval
    /\ OperationFrame

\* heater states of the cold head when the operations begin
OperationHeaterStates == {<<LOW, 40>>, <<MEDIUM, 40>>}

InitOperations ==
    /\ DeviceInit
    /\ NoDiscovery
    /\ NoForceClear
    /\ NoReports
    /\ WarmupInit
    /\ StabInit
    /\ \E h \in OperationHeaterStates :
          /\ mout = [c \in OutChannels |-> IF c = COLD_HEAD_OUT_CHANNEL THEN h[2] ELSE 0]
          /\ range = [c \in OutChannels |-> IF c = COLD_HEAD_OUT_CHANNEL THEN h[1] ELSE OFF]

NextOperations ==
    \/ \E k \in Sections : section_enter("col", k)
    \/ \E k \in Sections : section_connect("col", k)
    \/ \E k \in Sections, g \in Getters, ch \in OutChannels :
          \E reply \in AcquisitionReplies(g, ch) : section_get("col", k, reply)
    \/ \E k \in Sections : section_get_times_out("col", k)
    \/ \E k \in Sections : section_disconnect("col", k)
    \/ \E k \in Sections : section_leave("col", k)
    \/ sa_arduino_connect("col")
    \/ sa_arduino_acquire("col")
    \/ \E reply \in GenericReplies : sa_arduino_read("col", reply)
    \/ sa_arduino_read_times_out("col")
    \/ sa_arduino_disconnect("col")
    \/ sa_arduino_release("col")
    \/ sa_cls_step("col")
    \/ reset_connect("gui")
    \/ reset_cold_head_heater_output("gui")
    \/ reset_disconnect("gui")
    \/ \E v \in {Str("Low"), Str("Medium")} :
          /\ wrap_single_action("gui", "RANGE", COLD_HEAD_OUT_CHANNEL,
                                set_heater_range_value(v))
          /\ OperationFrame /\ UNCHANGED clientVars

SpecOperations == InitOperations /\ [][NextOperations]_vars

(***************************************************************************)
(* SpecSession: client threads calling the device methods in any order.    *)
(***************************************************************************)
InitSession ==
    /\ DeviceInit
    /\ NoDiscovery
    /\ NoForceClear
    /\ NoReports
    /\ WarmupInit
    /\ StabInit
    /\ mout = [c \in OutChannels |-> 0]
    /\ range = [c \in OutChannels |-> OFF]

\* the cryogen level sensor is read by the collector only
Uses(t, d) == d = "tc" \/ (t = "col" /\ d = "cls")

NextSession ==
    \/ \E t \in Clients, d \in Devices :
          Idle(t) /\ Uses(t, d) /\ connect(t, d) /\ UNCHANGED <<clientVars, warmVars, stabVars, pureVars>>
    \/ \E t \in Clients, d \in Devices :
          Idle(t) /\ Uses(t, d) /\ disconnect(t, d) /\ UNCHANGED <<clientVars, warmVars, stabVars, pureVars>>
    \/ \E t \in Clients, d \in Devices :
          Idle(t) /\ Uses(t, d) /\ connect_open_raises(t, d) /\ UNCHANGED <<clientVars, warmVars, stabVars, pureVars>>
    \/ \E t \in Clients, d \in Devices :
          Idle(t) /\ Uses(t, d) /\ connect_clear_raises(t, d) /\ UNCHANGED <<clientVars, warmVars, stabVars, pureVars>>
    \/ \E t \in Clients, d \in Devices :
          Idle(t) /\ Uses(t, d) /\ disconnect_clear_raises(t, d) /\ UNCHANGED <<clientVars, warmVars, stabVars, pureVars>>
    \/ \E t \in Clients, force \in BOOLEAN :
          Idle(t) /\ clear(t, "tc", force) /\ UNCHANGED <<clientVars, warmVars, stabVars, pureVars>>
    \/ \E t \in Clients : Idle(t) /\ lock_acquire(t, "tc") /\ UNCHANGED <<clientVars, warmVars, stabVars, pureVars>>
    \/ \E t \in Clients : Idle(t) /\ lock_release(t, "tc") /\ UNCHANGED <<clientVars, warmVars, stabVars, pureVars>>
    \/ \E t \in Clients, reply \in GenericReplies, pending \in Pendings, ube \in BOOLEAN :
          Idle(t) /\ safe_query(t, "tc", reply, pending, ube) /\ UNCHANGED <<clientVars, warmVars, stabVars, pureVars>>
    \/ \E t \in Clients : Idle(t) /\ safe_write(t, "tc") /\ UNCHANGED <<clientVars, warmVars, stabVars, pureVars>>
    \/ \E t \in Clients, reply \in GenericReplies, pending \in Pendings,
          cbb \in BOOLEAN, ube \in BOOLEAN :
          Idle(t) /\ safe_read(t, "tc", reply, pending, cbb, ube) /\ UNCHANGED <<clientVars, warmVars, stabVars, pureVars>>
    \/ \E t \in Clients, g \in Getters :
          \E reply \in Replies(GetterCommand[g], SAMPLE_SPACE_OUT_CHANNEL) :
              /\ Idle(t)
              /\ tc_get(t, g, SAMPLE_SPACE_OUT_CHANNEL, reply)
              /\ UNCHANGED <<clientVars, warmVars, stabVars, pureVars>>
    \/ \E t \in Clients, v \in {0, 100} :
          /\ Idle(t)
          /\ set_manual_output(t, SAMPLE_SPACE_OUT_CHANNEL, Num(v))
          /\ UNCHANGED <<clientVars, warmVars, stabVars, pureVars>>
    \/ \E t \in Clients, v \in {Str("off"), Num(HIGH)} :
          /\ Idle(t)
          /\ set_heater_range(t, SAMPLE_SPACE_OUT_CHANNEL, v)
          /\ UNCHANGED <<clientVars, warmVars, stabVars, pureVars>>
    \/ read_level_begin("col")
    \/ \E reply \in LevelReplies : level_query("col", reply)
    \/ level_retry_clear("col")
    \/ read_level_end("col")

SpecSession == InitSession /\ [][NextSession]_vars

(***************************************************************************)
(* Properties of the session layer (checked under SpecSession).            *)
(***************************************************************************)
\* C5: every read, write, query, clear, flush or drain of a device's channel
\* is performed by a thread that holds the device's lock, on an open session.
C5_IOUnderLockOnOpenSession ==
    \A i \in 1..Len(io) : io[i].op \in IOOps => io[i].held /\ io[i].open

\* C5 witness: a forced clear drained the buffer of an open session.
C5_Witness ==
    \E i \in 1..Len(io) : io[i].op = "drain" /\ io[i].held /\ io[i].open

\* C7: the channel is opened only when the session is closed and closed only
\* when it is open; connect on an open session and disconnect on a closed one
\* perform no channel operation at all.
C7_OpenCloseIdempotent ==
    /\ \A i \in 1..Len(io) :
          /\ io[i].op = "open" => ~io[i].open
          /\ io[i].op = "close" => io[i].open
    /\ (call.op = "connect" /\ call.sessBefore) => io = <<>>
    /\ (call.op = "disconnect" /\ ~call.sessBefore) => io = <<>>

\* C7 witness: the collector called connect() on a session the GUI thread's
\* lock-free connect() had already opened.
C7_Witness ==
    /\ call.op = "connect" /\ call.sessBefore /\ call.thread = "col"
    /\ call.dev = "tc" /\ session["tc"]

\* C8: on a closed session safe_write returns None and safe_read / safe_query
\* return '', none of them touches the channel, and the session stays closed.
C8_ClosedSessionEmptyResult ==
    (call.op \in {"safe_write", "safe_read", "safe_query"} /\ ~call.sessBefore)
        => /\ io = <<>>
           /\ call.result = (IF call.op = "safe_write" THEN None ELSE EmptyStr)
           /\ ~session[call.dev]

\* C8 witness: safe_query was called on a closed session.
C8_Witness == call.op = "safe_query" /\ ~call.sessBefore /\ call.result = EmptyStr

\* C25: when the open of the channel fails inside connect() the call raises
\* after exactly one open and no other channel operation, the session is
\* still closed, and the lock is owned, and nested, exactly as before the
\* call.
C25_OpenFailurePropagates ==
    [][(call'.op = "connect" /\ call'.result.kind = "raise")
          => /\ Len(io') = 1 /\ io'[1].op = "open"
             /\ ~call'.sessBefore /\ ~session'[call'.dev]
             /\ lockOwner' = lockOwner /\ lockCount' = lockCount]_vars

\* C25 witness: connect() raised in a thread that had entered the lock
\* itself one level deep; the session is closed and the lock is still held
\* one level deep by that thread.
C25_Witness ==
    /\ call.op = "connect" /\ call.result = Raised("VisaIOError")
    /\ ~session[call.dev]
    /\ lockOwner[call.dev] = call.thread /\ lockCount[call.dev] = 1

\* C26: a failure of the clear inside connect() or disconnect() does not
\* reach the caller, and the call still opens, respectively closes, the
\* channel: connect ends with the session open, disconnect with it closed.
C26_ClearFailureSwallowed ==
    (call.op \in {"connect", "disconnect"} /\ call.value.kind = "raise")
        => /\ call.result.kind # "raise"
           /\ \E i \in 1..Len(io) : io[i].op = "clear"
           /\ IF call.op = "connect"
                 THEN session[call.dev] /\ \E i \in 1..Len(io) : io[i].op = "open"
                 ELSE ~session[call.dev] /\ io[Len(io)].op = "close"

\* C26 witness: disconnect() closed the session although its clear failed.
C26_Witness ==
    /\ call.op = "disconnect" /\ call.value = Raised("VisaIOError")
    /\ call.sessBefore /\ ~session[call.dev]

\* C9: every getter called while the session is closed returns a sentinel
\* (NaN or '') and never raises; this covers the heater-range-name getters and
\* the cryogen level getters.
C9_ClosedGetterReturnsSentinel ==
    (call.op \in Getters \cup {"read_level"} /\ ~call.sessBefore)
        => call.result \in {NaN, EmptyStr}

(***************************************************************************)
(* Properties of the warm-up (checked under SpecWarmup and SpecRestart).   *)
(***************************************************************************)
\* C1: every manual-output value a controller thread writes to the instrument
\* is at most the ceiling (HeaterMaxPercent) of the range active on that
\* channel at the moment of the write.
C1_WriteWithinCeiling ==
    (/\ call.thread \in WThreads \cup SThreads
     /\ call.op = "MOUT"
     /\ call.sessBefore
     /\ call.value.kind = "num")
        => call.value.n <= HeaterMaxPercent[call.rng]

\* C2: once a warm-up has been started, stop_sample_space_warmup has returned
\* and the warm-up thread has finished, the sample-space manual output is 0 and
\* the heater range is OFF.
C2_StopLeavesHeaterOff ==
    (/\ stopRun >= 1
     /\ Idle("gui")
     /\ \E w \in WThreads : wpc[w] = "done"
     /\ \A w \in WThreads : ~Running(w))
        => /\ mout[SAMPLE_SPACE_OUT_CHANNEL] = 0
           /\ range[SAMPLE_SPACE_OUT_CHANNEL] = OFF

\* C3: at most one warm-up loop is alive at any time, and every loop that is
\* alive can be stopped by stop_sample_space_warmup: its Event is the one the
\* controller holds, or is already set.
C3_SingleWarmupLoop ==
    /\ Cardinality({w \in WThreads : Running(w)}) <= 1
    /\ \A w \in WThreads : Running(w) => (stop_warmup_event = w \/ evSet[w])

\* a controller step has read and has a write still to issue
MidStep(c) ==
    IF c \in WThreads
       THEN wpc[c] = "write" /\ \E j \in 1..Len(wq[c]) : wq[c][j].command # "raise"
       ELSE spc[c] = "set"

\* C6: between the read of a controller step and its last write no other
\* thread reads from or writes to the instrument.
C6_NoForeignIOInsideStep ==
    \A i \in 1..Len(io) : \A c \in WThreads \cup SThreads :
        (io[i].op \in {"query", "write", "read"} /\ io[i].thread # c) => ~MidStep(c)

\* C10: stop_sample_space_warmup never raises, and when it has been called
\* twice in a row the second call leaves the sample-space heater range OFF and
\* the manual output 0.
C10_StopTwiceIsSafe ==
    /\ call.op = "stop_sample_space_warmup" => call.result.kind # "raise"
    /\ (stopRun = 2 /\ call.thread = "gui" /\ call.op = "RANGE")
          => /\ mout[SAMPLE_SPACE_OUT_CHANNEL] = 0
             /\ range[SAMPLE_SPACE_OUT_CHANNEL] = OFF

C11_StartStopFromEveryState ==
    /\ call.op \in {"start_pressure_stabilization", "stop_pressure_stabilization"}
          => call.result.kind # "raise"
    /\ (call.op = "start_pressure_stabilization" /\ call.result = Str("launched"))
          => Cardinality({s \in SThreads : SRunning(s) /\ ~sevSet[s]}) = 1

\* C17: every manual output a steady-state stabilization tick writes lies in
\* the closed interval [0, 80].
C17_StabilizationWriteInRange ==
    \A s \in SThreads :
        (call.thread = s /\ call.op = "MOUT" /\ spc[s] = "loop" /\ call.value.kind = "num")
            => (0 <= call.value.n /\ call.value.n <= 80)

\* C18: a steady-state stabilization tick lowers the cold-head manual output
\* by 5 (not below 0) when the mean of the pressure window is below the
\* target, and raises it by 5 (not above 80) when the mean is at or above
\* the target.
C18_StabilizationStepDirection ==
    \A s \in SThreads :
        (call.thread = s /\ call.op = "manual_output" /\ spc[s] = "set"
            /\ call.result.kind = "num" /\ sloc[s].data # <<>>)
        => IF Sum(sloc[s].data) < get_target_pressure * Len(sloc[s].data)
              THEN sloc[s].new = Num(IF call.result.n - 5 > 0 THEN call.result.n - 5 ELSE 0)
              ELSE sloc[s].new = Num(IF call.result.n + 5 < 80 THEN call.result.n + 5 ELSE 80)

(***************************************************************************)
(* Properties of a warm-up tick (checked under SpecTick).  A tick is       *)
(* looked at in the state in which it has read the manual output and has   *)
(* decided what to write.                                                  *)
(***************************************************************************)
\* thread w has just read range and manual output and has decided
Decided(w) ==
    /\ call.thread = w /\ call.op = "manual_output" /\ call.result.kind = "num"
    /\ wpc[w] \in {"write", "sleep"}
    /\ Len(window[w]) >= 2

\* the latest reading of thread w against the target
LatestReading(w) == window[w][Len(window[w])].n
FarBelowTarget(w) == LatestReading(w) < sample_space_warmup_target_temperature - 20
NearTarget(w) == LatestReading(w) > sample_space_warmup_target_temperature - 20

\* <<manual output, range>> of the sample-space heater once the instrument
\* has executed the first k writes of a tick's plan
RECURSIVE AfterWrites(_, _)
AfterWrites(plan, k) ==
    IF k = 0 THEN <<mout[SAMPLE_SPACE_OUT_CHANNEL], range[SAMPLE_SPACE_OUT_CHANNEL]>>
    ELSE LET before == AfterWrites(plan, k - 1)
         IN IF plan[k].command = "MOUT" /\ plan[k].value.kind = "num"
               THEN <<plan[k].value.n, before[2]>>
            ELSE IF plan[k].command = "RANGE" /\ plan[k].value.kind = "num"
               THEN <<before[1], plan[k].value.n>>
            ELSE before

\* the tick of thread w ends without an exception
Completes(w) == \A j \in 1..Len(wq[w]) : wq[w][j].command # "raise"

Smaller(a, b) == IF a < b THEN a ELSE b
Larger(a, b) == IF a > b THEN a ELSE b

\* C19: far-below-target rule.  With the latest reading more than 2 K below
\* the target and the rate below 1 K/min the tick ends with output 10 and
\* range LOW when the range was OFF; with the output raised by 5, at most to
\* the ceiling of the range, and the range unchanged when the output was
\* below the ceiling; and with output 10 and the range one step higher when
\* the output was at the ceiling.  For the readings 240, 241, 242, 242.2,
\* 242.1 from OFF/0 the heater is at LOW/10 after the first decision and the
\* output rises from there (10, 15, 20) in every later tick.
C19_FarBelowTargetRule ==
    \A w \in WThreads :
        (Decided(w) /\ FarBelowTarget(w) /\ RateLt(mean_temp_diff_per_minute(window[w]), 1, 1))
        => LET out == call.result.n
               rng == range[SAMPLE_SPACE_OUT_CHANNEL]
               after == AfterWrites(wq[w], Len(wq[w]))
           IN /\ Completes(w)
              /\ IF rng = OFF THEN after = <<STARTING_HEATER_MIN_PERCENT, LOW>>
                 ELSE IF out < HeaterMaxPercent[rng]
                    THEN after = <<Smaller(out + 5, HeaterMaxPercent[rng]), rng>>
                 ELSE after = <<STARTING_HEATER_MIN_PERCENT, rng + 1>>
              /\ (/\ Readings(window[w]) = SubSeq(ScenarioReadings, 1, Len(window[w]))
                  /\ <<out, rng>> \in {<<0, OFF>>, <<10, LOW>>, <<15, LOW>>, <<20, LOW>>})
                    => after[2] = LOW /\ after[1] > out

\* C20: near-target rule.  With the latest reading above target - 2 K the
\* tick writes output - 10 (not below 0) and leaves the range at HIGH when
\* the rate exceeds 0.5 K/min or the reading exceeds target + 2 K; writes
\* output + 2 (not above 50) and leaves the range at HIGH when the rate is
\* below -0.5 K/min; writes nothing otherwise; and writes nothing else.
C20_NearTargetRule ==
    \A w \in WThreads :
        (Decided(w) /\ NearTarget(w))
        => LET out == call.result.n
               rng == range[SAMPLE_SPACE_OUT_CHANNEL]
               rate == mean_temp_diff_per_minute(window[w])
               toHigh == IF rng = HIGH THEN {<<>>, <<W("RANGE", Num(HIGH))>>}
                         ELSE {<<W("RANGE", Num(HIGH))>>}
           IN IF \/ rate.num * 2 > rate.den
                 \/ LatestReading(w) > sample_space_warmup_target_temperature + 20
                 THEN \E r \in toHigh : wq[w] = <<W("MOUT", Num(Larger(out - 10, 0)))>> \o r
              ELSE IF rate.num * 2 < - rate.den
                 THEN \E r \in toHigh : wq[w] = <<W("MOUT", Num(Smaller(out + 2, 50)))>> \o r
              ELSE wq[w] = <<>>

\* C20 witness: near the target with the range at LOW, a tick decided to
\* reduce the output by 10 and to force the range to HIGH.
C20_Witness ==
    \E w \in WThreads :
        /\ Decided(w) /\ NearTarget(w)
        /\ LatestReading(w) <= sample_space_warmup_target_temperature + 20
        /\ range[SAMPLE_SPACE_OUT_CHANNEL] = LOW /\ call.result.n = 78
        /\ wq[w] = <<W("MOUT", Num(68)), W("RANGE", Num(HIGH))>>

\* C21: too-fast rule.  With the latest reading more than 2 K below the
\* target and the rate above 3 K/min the tick writes nothing when the range
\* is OFF; writes only the output, reduced by 5 and not below 10, when the
\* output is above 10; and otherwise ends with the range one step lower and
\* the output at the ceiling of that lower range.  With the rate from 1 to
\* 3 K/min, both included, the tick writes nothing.
C21_TooFastRule ==
    \A w \in WThreads :
        (Decided(w) /\ FarBelowTarget(w))
        => LET out == call.result.n
               rng == range[SAMPLE_SPACE_OUT_CHANNEL]
               rate == mean_temp_diff_per_minute(window[w])
               after == AfterWrites(wq[w], Len(wq[w]))
           IN /\ (~rate.nan /\ rate.num > 3 * rate.den)
                    => /\ Completes(w)
                       /\ IF rng = OFF THEN wq[w] = <<>>
                          ELSE IF out > STARTING_HEATER_MIN_PERCENT
                             THEN wq[w] = <<W("MOUT", Num(Larger(out - 5, STARTING_HEATER_MIN_PERCENT)))>>
                          ELSE after = <<HeaterMaxPercent[rng - 1], rng - 1>>
              /\ (~rate.nan /\ rate.num >= rate.den /\ rate.num <= 3 * rate.den)
                    => wq[w] = <<>>

\* C21 witnesses: a tick far below the target with the rate above 3 K/min
\* and the output at the floor decided to step the range down from LOW, and
\* a tick at a rate of exactly 1 K/min decided to write nothing.
C21_Witness ==
    \E w \in WThreads :
        /\ Decided(w) /\ FarBelowTarget(w)
        /\ Readings(window[w]) = <<2420, 2400>>
        /\ range[SAMPLE_SPACE_OUT_CHANNEL] = LOW /\ call.result.n = 10
        /\ wq[w] = <<W("RANGE", Num(OFF)), W("MOUT", Num(100))>>

\* the rise of the readings of thread w over its window, as the fraction
\* num/den in K/min: latest reading minus oldest reading over the time
\* between them
Rise(w) ==
    [num |-> (window[w][Len(window[w])].n - window[w][1].n) * 60,
     den |-> (Len(window[w]) - 1) * _warmup_interval * 10]

\* C22: the warming rate is bounded.  In a tick whose latest reading is more
\* than 2 K below the target and whose readings have risen by more than
\* 3 K/min on average, no write of the tick raises the manual output or the
\* range; and in a tick whose readings have risen by less than 1 K/min, or
\* have fallen, the tick does not lower the range and does not lower the
\* output at an unchanged range.
C22_BoundedWarmingRate ==
    \A w \in WThreads :
        (Decided(w) /\ FarBelowTarget(w))
        => LET out == call.result.n
               rng == range[SAMPLE_SPACE_OUT_CHANNEL]
               after == AfterWrites(wq[w], Len(wq[w]))
           IN /\ (Rise(w).num > 3 * Rise(w).den)
                    => \A k \in 0..Len(wq[w]) :
                          /\ AfterWrites(wq[w], k)[1] <= out
                          /\ AfterWrites(wq[w], k)[2] <= rng
              /\ (Rise(w).num < Rise(w).den)
                    => /\ after[2] >= rng
                       /\ after[2] = rng => after[1] >= out

(***************************************************************************)
(* Properties of the switches of the stabilization loop (SpecSwitch).      *)
(***************************************************************************)
\* thread s has made the first instrument call of a switch and not its last
InsideSwitch(s) == spc[s] \in {"up_off", "up_mout", "up_back", "down_mout", "down_back"}

\* C23: the switches are atomic.  From the first instrument call of a switch
\* (the range read at startup, the range-OFF write at shutdown) to its last
\* (the range restore) no other thread opens, closes, reads, writes or
\* queries the controller's channel, and no getter of another thread returns
\* the state of the instrument.
C23_SwitchIsAtomic ==
    \A s \in SThreads :
        InsideSwitch(s)
        => /\ \A i \in 1..Len(io) : io[i].dev = "tc" => io[i].thread = s
           /\ (call.thread # s /\ call.op \in Getters) => io = <<>>

\* C23 witness: during the shutdown switch, with the range forced to OFF and
\* the restore still to come, another thread has called a setter or a getter
\* of the controller's public interface lock-free and got no further than
\* the lock; the latest call is the switch's own.
C23_Witness ==
    \E s \in SThreads :
        /\ spc[s] = "down_back" /\ call.thread = s /\ call.op = "MOUT"
        /\ range[COLD_HEAD_OUT_CHANNEL] = OFF /\ sloc[s].range = Str("Medium")
        /\ lockOwner["tc"] = s
        /\ \E i \in 1..Len(io) : io[i].op = "write" /\ io[i].thread = s

C27_ForcedClearRestoresTimeout ==
    /\ resource.pc \in {"done", "raised"} => resource.timeout = resource.before
    /\ resource.pc = "done" => resource.pending = <<>>
    /\ resource.reads <= resource.initial + 1

\* C30: after a discovery call has returned, no channel it opened is still
\* open: not one that matched, not one that did not match, not one that is
\* not message based, not one whose probe failed with an I/O error.
C30_DiscoveryClosesChannels ==
    call.op \in {"from_idn", "from_visa_attribute"}
    => \A i \in DOMAIN channels : ~channels[i].open

\* the channels that open, are message based, answer the probe and report
\* an identity that equals the desired one, or holds it when partial
IdnMatches ==
    {i \in 1..Len(channels) :
        /\ channels[i].state = "ok" /\ channels[i].message_based
        /\ IF call.value = Str("partial")
              THEN \E k \in 0..(Len(channels[i].value) - Len(DesiredValue)) :
                      SubSeq(channels[i].value, k + 1, k + Len(DesiredValue)) = DesiredValue
              ELSE channels[i].value = DesiredValue}

\* C32: the list returned by find_available_resources_by_idn holds exactly
\* the reachable message-based channels whose identity matches, each once
\* and in enumeration order; a channel that cannot be opened or whose probe
\* fails is skipped and the channels after it are still scanned.
C32_IdnListExact ==
    call.op = "find_available_resources_by_idn"
    => LET list == call.result.list
       IN /\ \A k \in 1..Len(list), l \in 1..Len(list) : k < l => list[k] < list[l]
          /\ {list[k] : k \in 1..Len(list)} = IdnMatches

\* C32 witness: of three channels the first is busy and the second fails
\* during the probe; the third matches and is returned.
C32_Witness ==
    /\ call.op = "find_available_resources_by_idn"
    /\ Len(channels) = 3
    /\ channels[1].state = "busy" /\ channels[2].state = "fault" /\ channels[2].message_based
    /\ call.result.list = <<3>>

(***************************************************************************)
(* Further properties of the control loops (checked under SpecLoops).      *)
(***************************************************************************)
\* a getter or setter call of a warm-up tick, of a steady-state
\* stabilization tick
WarmupTickCall ==
    call.thread \in WThreads /\ call.op \in Getters \cup {"MOUT", "RANGE"}
StabilizationTickCall ==
    /\ call.thread \in SThreads
    /\ \/ call.op = "manual_output"
       \/ call.op = "MOUT" /\ spc[call.thread] = "loop"

\* C34: every read and write of a warm-up tick and of a steady-state
\* stabilization tick is made on an open session, so that on a reachable
\* instrument no tick reads the sentinel and drops its writes.
C34_TicksOnOpenSession ==
    (WarmupTickCall \/ StabilizationTickCall) => call.sessBefore

C38_RangeStepsStayInEnum ==
    /\ (call.thread \in WThreads /\ call.op = "RANGE")
          => call.value.kind = "num" /\ call.value.n \in HeaterRangeValues
    /\ \A w \in WThreads : Completes(w)
    /\ ~(call.op = "check_warmup_heater_status" /\ call.result.kind = "raise")

(***************************************************************************)
(* Properties of the multi-step operations (checked under SpecOperations). *)
(***************************************************************************)
\* a write of reset_cold_head_heater_output made by the GUI reset action
ResetWrite ==
    /\ call.thread = "gui"
    /\ call.op \in {"RANGE", "MOUT"}
    /\ cpc["gui"] \in {"rst_output", "rst_medium", "rst_disconnect"}

\* C36: once the GUI reset action has connected, no disconnect of another
\* call site closes the session before the action's own disconnect: every
\* write of reset_cold_head_heater_output is made on an open session, and
\* when the action has disconnected the cold-head range is MEDIUM.
C36_ResetKeepsSession ==
    /\ ResetWrite => call.sessBefore
    /\ (call.thread = "gui" /\ call.op = "disconnect")
          => range[COLD_HEAD_OUT_CHANNEL] = MEDIUM

\* C37: no instrument lock is leaked: a thread that is in none of the
\* operations (the operation it ran has returned or raised) holds no device
\* lock, so that no other thread waits for a lock forever.
C37_NoLockLeaked ==
    \A t \in Clients, d \in Devices : Idle(t) => lockOwner[d] # t

\* C40: whenever no thread holds a device's lock, that device's session is
\* closed.
C40_FreeLockClosedSession ==
    \A d \in Devices : lockOwner[d] = NoThread => ~session[d]

C31_ChunksOnceInOrder ==
    (call.op \in {"safe_query", "safe_read"} /\ call.result.kind = "chunks")
    => LET stream == call.value.stream
           got == call.result.chunks
       IN /\ call.sessBefore
          /\ stream = got \o resource.pending
          /\ resource.reads = Len(got)
          /\ \A i \in 1..Len(got) : got[i] # "tail"
          /\ ~call.value.until_buffer_empty
                => Len(got) = (IF call.value.check_buffer_before /\ stream = <<>> THEN 0 ELSE 1)
          /\ call.value.until_buffer_empty => resource.pending = <<>>

\* C31 witness: a query with until_buffer_empty whose answer of two chunks
\* arrived behind a chunk already pending returned all three, in order.
C31_Witness ==
    /\ call.op = "safe_query" /\ call.value.until_buffer_empty
    /\ call.value.stream = <<"b", "a", "b">>
    /\ call.result = Returned(<<"b", "a", "b">>)
    /\ resource.pending = <<>>

(***************************************************************************)
(* Properties of the message framing (checked under SpecFraming).          *)
(***************************************************************************)
\* C28: the message is the primary command, then '?' exactly when is_query
\* is true, then one space and the channel token exactly when a channel is
\* given: its length and every one of its characters are determined by the
\* three arguments.  ('SETP', True, 'B') gives 'SETP? B' and ('CLR', False,
\* None) gives 'CLR'.
C28_FormMessage ==
    call.op = "form_message"
    => LET cmd == call.value.primary_command
           q == IF call.value.is_query THEN 1 ELSE 0
           ch == call.value.channel
           message == call.result
       IN /\ Len(message) = Len(cmd) + q + (IF ch.given THEN 1 + Len(ch.token) ELSE 0)
          /\ SubSeq(message, 1, Len(cmd)) = cmd
          /\ call.value.is_query => message[Len(cmd) + 1] = "?"
          /\ ch.given => /\ message[Len(cmd) + q + 1] = " "
                         /\ SubSeq(message, Len(cmd) + q + 2, Len(message)) = ch.token
          /\ (cmd = <<"S", "E", "T", "P">> /\ call.value.is_query /\ ch.given
                /\ ch.token = <<"B">>) => message = <<"S", "E", "T", "P", "?", " ", "B">>
          /\ (cmd = <<"C", "L", "R">> /\ ~call.value.is_query /\ ~ch.given)
                => message = <<"C", "L", "R">>

\* C28 witness: ('SETP', True, 'B') gave 'SETP? B'.
C28_Witness ==
    /\ call.op = "form_message"
    /\ call.value.primary_command = <<"S", "E", "T", "P">> /\ call.value.is_query
    /\ call.value.channel = [given |-> TRUE, token |-> <<"B">>]
    /\ call.result = <<"S", "E", "T", "P", "?", " ", "B">>

\* the commas of a text, and the token between the comma before position
\* i and the next comma, with the blanks around it removed
Commas(text) == {i \in 1..Len(text) : text[i] = ","}
TokenFrom(text, i) ==
    LET ends == {j \in Commas(text) : j >= i} \cup {Len(text) + 1}
        last == CHOOSE j \in ends : \A k \in ends : j <= k
    IN strip(SubSeq(text, i, last - 1))
\* an integer literal: digits after an optional sign
IsIntegerLiteral(token) == isdigit(Unsigned(token))
\* what a token is coerced to: integer before float before text
Coerced(token) ==
    IF IsIntegerLiteral(token)
       THEN IntValue((IF Unsigned(token) = token THEN 1 ELSE -1) * int(Unsigned(token)))
    ELSE IF float_parses(token) THEN float(token)
    ELSE TextValue(token)

\* C29: parse_response strips the text, splits it on commas and coerces
\* every token: an integer literal becomes an int, any other decimal a
\* float, anything else stays text.  One token gives the bare value, several
\* give the list of values in order.
C29_ParseResponse ==
    call.op = "parse_response"
    => LET text == strip(call.value)
           starts == {1} \cup {i + 1 : i \in Commas(text)}
           nth(k) == CHOOSE i \in starts : Cardinality({j \in starts : j < i}) = k - 1
       IN IF Commas(text) = {}
             THEN call.result = Coerced(TokenFrom(text, 1))
             ELSE /\ Len(call.result) = Cardinality(starts)
                  /\ \A k \in 1..Cardinality(starts) :
                        call.result[k] = Coerced(TokenFrom(text, nth(k)))

(***************************************************************************)
(* Properties of both control loops (checked under SpecLoops).             *)
(***************************************************************************)
\* positions of a loop thread inside its `while not stop_event.is_set()` loop
WTickPositions == {"sleep", "range", "mout", "write"}
STickPositions == {"loop", "get", "set"}

\* C12: an exception raised inside a tick of the warm-up loop or of the
\* stabilization steady-state loop does not end the loop: the thread is back
\* at its sleep, from where the next tick starts, and a thread leaves its
\* loop only when its stop Event is set.
C12_TickErrorKeepsLoop ==
    [][/\ \A w \in WThreads :
             /\ (call'.thread = w /\ call'.result.kind = "raise" /\ wpc[w] \in WTickPositions)
                   => wpc'[w] = "sleep"
             /\ (wpc[w] \in WTickPositions /\ wpc'[w] \notin WTickPositions) => evSet[w]
       /\ \A s \in SThreads :
             /\ (call'.thread = s /\ call'.result.kind = "raise" /\ spc[s] \in STickPositions)
                   => spc'[s] = "loop"
             /\ (spc[s] \in STickPositions /\ spc'[s] \notin STickPositions) => sevSet[s]]_vars

\* C12 witness: a warm-up tick raised in the third round of the loop while
\* the heater state is still the initial one, and the thread is alive at its
\* sleep with its Event clear.
C12_Witness ==
    \E w \in WThreads :
        /\ call.thread = w /\ call.result.kind = "raise"
        /\ Len(window[w]) = 3 /\ mout[SAMPLE_SPACE_OUT_CHANNEL] = 50
        /\ wpc[w] = "sleep" /\ ~evSet[w]

\* the tick that thread w is running is going to raise
TickWillRaise(w) ==
    wpc[w] = "write" /\ \E j \in 1..Len(wq[w]) : wq[w][j].command = "raise"

\* C13: in a warm-up tick that fails no manual-output write and no range
\* write reaches the instrument before the failure.
C13_FailedTickWritesNothing ==
    [][\A w \in WThreads :
          (TickWillRaise(w) /\ call'.thread = w /\ call'.op \in {"MOUT", "RANGE"})
              => \A i \in 1..Len(io') : io'[i].op # "write"]_vars

\* C14: once its stop Event is set a loop begins no new tick, leaves its
\* sleep only to end, and the loop thread eventually terminates.
C14_StopEndsLoop ==
    /\ [][/\ \A w \in WThreads :
                 (evSet[w] /\ wpc[w] = "sleep") => wpc'[w] \in {"sleep", "done"}
           /\ \A s \in SThreads :
                 (sevSet[s] /\ spc[s] = "loop") => spc'[s] \in {"loop", "clear"}]_vars
    /\ \A w \in WThreads : (evSet[w] /\ Running(w)) ~> (wpc[w] = "done")
    /\ \A s \in SThreads : (sevSet[s] /\ SRunning(s)) ~> (spc[s] = "done")

\* C14 witness: a warm-up thread and a stabilization thread have both ended
\* after their stop Events were set.
C14_Witness ==
    /\ \E w \in WThreads : wpc[w] = "done" /\ evSet[w]
    /\ \E s \in SThreads : spc[s] = "done" /\ sevSet[s]

(***************************************************************************)
(* Properties of the rolling windows (checked under SpecWindow).           *)
(***************************************************************************)
\* the last min(Len(s), n) elements of s, in order
LastN(s, n) == IF Len(s) <= n THEN s ELSE SubSeq(s, Len(s) - n + 1, Len(s))

\* C15: the rolling window of each loop holds at most 5 samples, and after
\* any number n of samples it is exactly the last min(n, 5) of them, oldest
\* first.
C15_WindowHoldsLastFive ==
    /\ Len(window[WOrder[1]]) <= max_size
    /\ window[WOrder[1]] = LastN(pushed.warmup, max_size)
    /\ Len(sloc[SOrder[1]].data) <= max_size
    /\ sloc[SOrder[1]].data = LastN(pushed.stabilization, max_size)

\* C15 witness: seven samples went into the warm-up window, the two evicted
\* ones differ from the ones that took their places, and the stabilization
\* window has evicted a sample too.
C15_Witness ==
    /\ Len(pushed.warmup) = 7 /\ Len(window[WOrder[1]]) = 5
    /\ pushed.warmup[1] # pushed.warmup[6] /\ pushed.warmup[2] # pushed.warmup[7]
    /\ Len(pushed.stabilization) = 6 /\ Len(sloc[SOrder[1]].data) = 5

(***************************************************************************)
(* Properties of the discovery (checked under SpecDiscovery).              *)
(***************************************************************************)
\* the channels that can be opened and probed (and, for a search by
\* identity, queried) and whose value matches what the latest call asked for
MatchingChannels ==
    {i \in 1..Len(channels) :
        /\ channels[i].state = "ok"
        /\ call.op = "from_idn" => channels[i].message_based
        /\ IF call.value = Str("partial")
              THEN \E k \in 0..(Len(channels[i].value) - Len(DesiredValue)) :
                      \A j \in 1..Len(DesiredValue) : channels[i].value[k + j] = DesiredValue[j]
              ELSE channels[i].value = DesiredValue}

\* C16: from_idn and from_visa_attribute return a device only when exactly
\* one reachable channel matches, and then the device of that channel; with
\* no match they raise a "none found" error and with two or more matches a
\* different, "multiple found" error.
C16_ExactlyOneMatch ==
    call.op \in {"from_idn", "from_visa_attribute"} =>
        /\ call.result.kind \in {"num", "raise"}
        /\ call.result.kind = "num" =>
               /\ Cardinality(MatchingChannels) = 1
               /\ call.result.n \in MatchingChannels
        /\ Cardinality(MatchingChannels) = 0 =>
               call.result = Raised("ValueError: No resource found")
        /\ Cardinality(MatchingChannels) >= 2 =>
               call.result = Raised("ValueError: Multiple resources found")

\* C16 witness: a search by partial identity over three channels, two of
\* which match, was refused as ambiguous.
C16_Witness ==
    /\ call.op = "from_idn" /\ call.value = Str("partial")
    /\ Len(channels) = 3 /\ Cardinality(MatchingChannels) = 2
    /\ call.result = Raised("ValueError: Multiple resources found")

====
